---- MODULE Spec2Model ----
(***************************************************************************)
(* Model of the ScheduleApp backend (the revision with the on-call rota):  *)
(* the hourly, gate, weekly-duty and on-call generators, the reshuffle and *)
(* the two override handlers, over the tables of the SQLite database.      *)
(* Dates are day numbers (day 0 is a Monday), a week is identified by its  *)
(* index (its week_start_date is day 7 * index).                           *)
(***************************************************************************)
EXTENDS Integers, Sequences, FiniteSets, TLC

\* ---------------------------------------------------------------- bounds
\* the roster has the ids 1..NumNames
NumNames == 2
\* the weekly override is tried on the weeks 0..MaxOverrideWeek
MaxOverrideWeek == 1
\* the rolling windows: the code generates 52 weeks ahead, the model a
\* shorter window of the same shape
WEEKS_TO_GENERATE == 3
WEEKS_TO_GENERATE_ONCALL == 1
\* the largest roster of present names the hourly distributor is tried on
MaxPresent == 6

\* ------------------------------------------------------ program constants
DaysPerWeek == 7
NULL == 0
NullText == "null"

TimeSlotList == <<8, 9, 10, 11, 12, 13>>
DAYS_OF_WEEK_KEYS == <<"sun", "mon", "tue", "wed", "thu", "fri", "sat">>

\* ----------------------------------------------------------------- inputs
\* the dates read and edited: the Sunday of week 0 and the Monday of week 1
Dates == {DaysPerWeek - 1, DaysPerWeek}
\* a run is a sequence of at most three operations (of at most four when only
\* reads and weekly overrides, or only reads and absence changes, are made)
StepRange == 0..2
LongStepRange == 0..3
OverrideWeeks == 0..MaxOverrideWeek
CutoffHours == {0, 10}
OverrideHours == {9, 12}
Reasons == {"r1", "r2"}
ShuffleReasons == {"r1"}
WeeklyReasons == {"r1"}
Actors == {"u1"}

\* the names table, ORDER BY id
Names == [i \in 1..NumNames |-> i]

VARIABLES absences, hourly, gate, weekly, oncall, rotation, audit, lastOp, steps

\* the statement-level view, used where the interleaving of two requests or the
\* failure of one statement matters: conn is the shared SQLite connection (its
\* tables as lists of rows, and its open transaction), req the requests in
\* flight, each at one of its await points
VARIABLES conn, req

\* the view of the audit reader, used where the order of the audit entries
\* matters: now is the wall clock in seconds, stamps the timestamp column of
\* audit_log (DEFAULT CURRENT_TIMESTAMP) row by row, surfaced the row returned
\* by the last SELECT of the most recent entry of a date (0 for no row)
VARIABLES auditView

vars == <<absences, hourly, gate, weekly, oncall, rotation, audit, lastOp, steps,
          conn, req, auditView>>

\* ---------------------------------------------------------------- helpers
SeqToSet(s) == {s[i] : i \in 1..Len(s)}

\* Array.prototype.findIndex: 0-based index of the first match, -1 if none
FindIndex(s, x) ==
  IF \E i \in 1..Len(s) : s[i] = x
  THEN (CHOOSE i \in 1..Len(s) : s[i] = x /\ \A j \in 1..(i - 1) : s[j] # x) - 1
  ELSE -1

\* allNames[(lastIndex + 1) % allNames.length]
NextInList(s, x) == s[((FindIndex(s, x) + 1) % Len(s)) + 1]

\* dayjs(date).startOf("isoWeek"), as a week index
WeekOf(d) == d \div DaysPerWeek

\* allNames.filter((name) => !absentNameIds.has(name.id))
PresentNames(abs, d) == SelectSeq(Names, LAMBDA n : <<n, d>> \notin abs)

\* the outcomes of [...presentNames].sort(() => 0.5 - Math.random())
Shuffles(present) ==
  {s \in [1..Len(present) -> SeqToSet(present)] :
     \A i, j \in 1..Len(present) : i # j => s[i] # s[j]}

\* (variant: without the step to the successor of the previous main)
RegenerateGateNoSuccessor(g, date, presentNames) ==
  IF date \in DOMAIN g THEN g
  ELSE IF Len(presentNames) = 0 THEN g
  ELSE
    LET hasPrev == (date - 1) \in DOMAIN g
        prevBackup == IF hasPrev THEN g[date - 1].backup_name_id ELSE NULL
        newMain == IF prevBackup # NULL /\ prevBackup \in SeqToSet(presentNames)
                   THEN prevBackup ELSE presentNames[1]
        newBackup == IF Len(presentNames) > 1
                     THEN NextInList(presentNames, newMain)
                     ELSE NULL
    IN [d \in DOMAIN g \cup {date} |->
          IF d = date
          THEN [main_name_id |-> newMain, backup_name_id |-> newBackup]
          ELSE g[d]]

\* (variant: the backup computed also when a single name is present)
RegenerateGateBackupAlways(g, date, presentNames) ==
  IF date \in DOMAIN g THEN g
  ELSE IF Len(presentNames) = 0 THEN g
  ELSE
    LET hasPrev == (date - 1) \in DOMAIN g
        prevBackup == IF hasPrev THEN g[date - 1].backup_name_id ELSE NULL
        prevMain == IF hasPrev THEN g[date - 1].main_name_id ELSE NULL
        fromPrev ==
          IF prevBackup # NULL /\ prevBackup \in SeqToSet(presentNames)
          THEN prevBackup
          ELSE IF prevMain # NULL /\ FindIndex(presentNames, prevMain) # -1
          THEN NextInList(presentNames, prevMain)
          ELSE NULL
        newMain == IF fromPrev = NULL THEN presentNames[1] ELSE fromPrev
        newBackup == NextInList(presentNames, newMain)
    IN [d \in DOMAIN g \cup {date} |->
          IF d = date
          THEN [main_name_id |-> newMain, backup_name_id |-> newBackup]
          ELSE g[d]]

\* ------------------------------------------------------------ gate duty
RegenerateGateAssignment(g, date, presentNames) ==
  IF date \in DOMAIN g THEN g
  ELSE IF Len(presentNames) = 0 THEN g
  ELSE
    LET hasPrev == (date - 1) \in DOMAIN g
        prevBackup == IF hasPrev THEN g[date - 1].backup_name_id ELSE NULL
        prevMain == IF hasPrev THEN g[date - 1].main_name_id ELSE NULL
        fromPrev ==
          IF prevBackup # NULL /\ prevBackup \in SeqToSet(presentNames)
          THEN prevBackup
          ELSE IF prevMain # NULL /\ FindIndex(presentNames, prevMain) # -1
          THEN NextInList(presentNames, prevMain)
          ELSE NULL
        newMain == IF fromPrev = NULL THEN presentNames[1] ELSE fromPrev
        newBackup == IF Len(presentNames) > 1
                     THEN NextInList(presentNames, newMain)
                     ELSE NULL
    IN [d \in DOMAIN g \cup {date} |->
          IF d = date
          THEN [main_name_id |-> newMain, backup_name_id |-> newBackup]
          ELSE g[d]]

\* --------------------------------------------------------- hourly slots
HourlyRow(n, e, o, r) ==
  [name_id |-> n, is_edited |-> e, original_name_id |-> o, reason |-> r]

\* (variant: the DELETE without its is_edited = 0 condition)
HourlyDeleteAlsoEdited(h, date, fromHour) ==
  LET keep == {k \in DOMAIN h : ~(k[1] = date /\ k[2] >= fromHour)}
  IN [k \in keep |-> h[k]]

\* DELETE FROM hourly_schedule WHERE scheduled_date = ? AND
\* scheduled_time >= ? AND is_edited = 0
HourlyDelete(h, date, fromHour) ==
  LET keep == {k \in DOMAIN h :
                 ~(k[1] = date /\ k[2] >= fromHour /\ h[k].is_edited = 0)}
  IN [k \in keep |-> h[k]]

\* (variant: two consecutive slots for each name in turn)
HourlyInsertPairs(h, date, fromHour, shuffledNames) ==
  LET timeSlots == SelectSeq(TimeSlotList, LAMBDA t : t >= fromHour)
      newKeys == {<<date, timeSlots[i]>> : i \in 1..Len(timeSlots)}
  IN [k \in DOMAIN h \cup newKeys |->
        IF k \in DOMAIN h THEN h[k]
        ELSE HourlyRow(
               shuffledNames[((FindIndex(timeSlots, k[2]) \div 2) % Len(shuffledNames)) + 1],
               0, NULL, NullText)]

\* the INSERT OR IGNORE loop over the time slots >= fromHour
HourlyInsert(h, date, fromHour, shuffledNames) ==
  LET timeSlots == SelectSeq(TimeSlotList, LAMBDA t : t >= fromHour)
      newKeys == {<<date, timeSlots[i]>> : i \in 1..Len(timeSlots)}
  IN [k \in DOMAIN h \cup newKeys |->
        IF k \in DOMAIN h THEN h[k]
        ELSE HourlyRow(
               shuffledNames[(FindIndex(timeSlots, k[2]) % Len(shuffledNames)) + 1],
               0, NULL, NullText)]

\* (variant: without the early return on existing rows)
RegenerateHourlyAlways(h, date, fromHour, userName, shuffledNames) ==
  LET deleted == HourlyDelete(h, date, fromHour)
  IN IF Len(shuffledNames) > 0
     THEN HourlyInsert(deleted, date, fromHour, shuffledNames)
     ELSE deleted

\* (variant: the early return taken only when an unpinned row exists)
RegenerateHourlyUnlessOnlyPinned(h, date, fromHour, userName, shuffledNames) ==
  IF (\E k \in DOMAIN h : k[1] = date /\ h[k].is_edited = 0) /\ userName = NullText
  THEN h
  ELSE
    LET deleted == HourlyDelete(h, date, fromHour)
    IN IF Len(shuffledNames) > 0
       THEN HourlyInsert(deleted, date, fromHour, shuffledNames)
       ELSE deleted

\* userName = NullText is the call made by regenerateAll (no actor)
RegenerateHourlySchedule(h, date, fromHour, userName, shuffledNames) ==
  IF (\E k \in DOMAIN h : k[1] = date) /\ userName = NullText THEN h
  ELSE
    LET deleted == HourlyDelete(h, date, fromHour)
    IN IF Len(shuffledNames) > 0
       THEN HourlyInsert(deleted, date, fromHour, shuffledNames)
       ELSE deleted

\* ----------------------------------------------------------- weekly duty
WeeklyRow(n, e, o, r, off) ==
  [name_id |-> n, is_edited |-> e, original_name_id |-> o, reason |-> r,
   is_off_week |-> off]

\* (variant: the cold start taken from the last name, as the on-call rota does)
InitialLastAssignedFromLastName(w, names, startWeek) ==
  LET cand == {k \in DOMAIN w :
                 k < startWeek /\ w[k].name_id # NULL /\ w[k].is_off_week = 0}
  IN IF cand # {}
     THEN w[CHOOSE k \in cand : \A j \in cand : j <= k].name_id
     ELSE names[Len(names)]

\* SELECT name_id ... WHERE name_id IS NOT NULL AND week_start_date < ? AND
\* is_off_week = 0 ORDER BY week_start_date DESC LIMIT 1; then the fallback
\* to allNames[0].id
InitialLastAssigned(w, names, startWeek) ==
  LET cand == {k \in DOMAIN w :
                 k < startWeek /\ w[k].name_id # NULL /\ w[k].is_off_week = 0}
  IN IF cand # {}
     THEN w[CHOOSE k \in cand : \A j \in cand : j <= k].name_id
     ELSE names[1]

\* the computation of expectedDutyPersonId
ExpectedDutyPerson(names, lastAssignedPersonId) ==
  IF lastAssignedPersonId # NULL
  THEN NextInList(names, lastAssignedPersonId)
  ELSE names[1]

\* (variant: a pinned off-week hands the turn on, advancing the pointer)
PointerAfterFixedOffAdvances(names, rec, last) ==
  IF rec.is_off_week = 0 /\ rec.name_id # NULL THEN rec.name_id
  ELSE IF rec.is_off_week = 1 THEN NextInList(names, last)
  ELSE last

\* lastAssignedPersonId after a fixed (is_edited = 1) week: its occupant if the
\* week is not off and has one, unchanged otherwise
PointerAfterFixed(names, rec, last) ==
  IF rec.is_off_week = 0 /\ rec.name_id # NULL THEN rec.name_id ELSE last

\* (variant: only pinned off-weeks count as fixed)
ExistingFixedOnlyOff(snap, week) ==
  week \in DOMAIN snap /\ snap[week].is_edited = 1 /\ snap[week].is_off_week = 1

\* fixedDutiesMap.get(weekStartDate): the week has a row with is_edited = 1
ExistingFixedRecord(snap, week) ==
  week \in DOMAIN snap /\ snap[week].is_edited = 1

\* the for loop of regenerateWeeklyDuty: snap is the table as read before the
\* loop (fixedDutiesMap / allExistingMap), w the table being written
RECURSIVE WeeklyLoop(_, _, _, _, _, _)
WeeklyLoop(snap, w, names, week, endWeek, last) ==
  IF week >= endWeek THEN w
  ELSE IF ExistingFixedRecord(snap, week)
  THEN WeeklyLoop(snap, w, names, week + 1, endWeek,
                  PointerAfterFixed(names, snap[week], last))
  ELSE IF /\ week \in DOMAIN snap
          /\ snap[week].is_edited = 0
          /\ snap[week].name_id # NULL
          /\ snap[week].is_off_week = 0
  THEN WeeklyLoop(snap, w, names, week + 1, endWeek, snap[week].name_id)
  ELSE
    LET expected == ExpectedDutyPerson(names, last)
        \* the UPDATE (row exists) and the INSERT (no row) write the same row
        written == (week :> WeeklyRow(expected, 0, NULL, NullText, 0)) @@ w
    IN WeeklyLoop(snap, written, names, week + 1, endWeek, expected)

RegenerateWeeklyDuty(w, triggerWeek, names) ==
  IF Len(names) = 0 THEN w
  ELSE WeeklyLoop(w, w, names, triggerWeek, triggerWeek + WEEKS_TO_GENERATE,
                  InitialLastAssigned(w, names, triggerWeek))

\* ---------------------------------------------------------- on-call rota
\* keys of oncall_schedule are <<week, dayIndex>>, dayIndex the position of
\* the day key in DAYS_OF_WEEK_KEYS

\* (variant: the cold start taken from the first name, as the weekly rota does)
OnCallSeedFromFirstName(oc, names) ==
  IF DOMAIN oc # {}
  THEN oc[CHOOSE k \in DOMAIN oc :
            \A j \in DOMAIN oc : j[1] < k[1] \/ (j[1] = k[1] /\ j[2] <= k[2])]
  ELSE names[1]

\* SELECT ... ORDER BY week_start_date DESC, CASE day_of_week ... DESC LIMIT 1,
\* then the cold-start fallback to the last name
OnCallSeed(oc, names) ==
  IF DOMAIN oc # {}
  THEN oc[CHOOSE k \in DOMAIN oc :
            \A j \in DOMAIN oc : j[1] < k[1] \/ (j[1] = k[1] /\ j[2] <= k[2])]
  ELSE names[Len(names)]

\* the two nested for loops, flattened: slot n is day (n % 7) of week
\* startWeek + n \div 7
RECURSIVE OnCallLoop(_, _, _, _, _, _)
OnCallLoop(existing, oc, names, startWeek, n, current) ==
  IF n >= WEEKS_TO_GENERATE_ONCALL * Len(DAYS_OF_WEEK_KEYS)
  THEN [oncall |-> oc, current |-> current]
  ELSE
    LET key == <<startWeek + (n \div Len(DAYS_OF_WEEK_KEYS)),
                 (n % Len(DAYS_OF_WEEK_KEYS)) + 1>>
    IN IF key \in DOMAIN existing
       THEN OnCallLoop(existing, oc, names, startWeek, n + 1, existing[key])
       ELSE
         LET nextPersonId == NextInList(names, current)
             \* INSERT OR IGNORE
             inserted == IF key \in DOMAIN oc THEN oc
                         ELSE (key :> nextPersonId) @@ oc
         IN OnCallLoop(existing, inserted, names, startWeek, n + 1, nextPersonId)

\* returns the new oncall_schedule and the new oncall_rotation_state
GenerateOnCallSchedule(oc, rot, triggerWeek, names) ==
  IF Len(names) = 0 THEN [oncall |-> oc, rotation |-> rot]
  ELSE
    LET \* the row is inserted if missing; its value is not used further on
        rotAfterInit == IF rot # NULL THEN rot ELSE names[Len(names)]
        res == OnCallLoop(oc, oc, names, triggerWeek, 0, OnCallSeed(oc, names))
    IN \* UPDATE oncall_rotation_state SET last_assigned_name_id = ? WHERE id = 1
       [oncall |-> res.oncall,
        rotation |-> IF rotAfterInit # NULL THEN res.current ELSE rotAfterInit]

\* ------------------------------------------------- the shared connection
\* A table is the list of its rows in insertion order; a row carries the columns
\* of its UNIQUE constraint as the field key.
Requests == {1, 2}

\* (variant: the tables declared without their UNIQUE constraints)
UniqueViolationNever(rows, key) == FALSE

\* UNIQUE(scheduled_date, scheduled_time), assignment_date UNIQUE,
\* week_start_date UNIQUE, UNIQUE (week_start_date, day_of_week)
UniqueViolation(rows, key) == \E i \in 1..Len(rows) : rows[i].key = key

\* INSERT INTO ...: rejected with SQLITE_CONSTRAINT on a taken key
SqlInsert(rows, row) ==
  IF UniqueViolation(rows, row.key)
  THEN [ok |-> FALSE, rows |-> rows]
  ELSE [ok |-> TRUE, rows |-> Append(rows, row)]

\* INSERT OR IGNORE INTO ...
SqlInsertOrIgnore(rows, row) ==
  IF UniqueViolation(rows, row.key) THEN rows ELSE Append(rows, row)

\* SELECT ... WHERE <key> = ?, as db.get returns it: whether a row was found
SqlExists(rows, key) == \E i \in 1..Len(rows) : rows[i].key = key

\* the rows of a SELECT put into a Map by key (a later row replaces an earlier)
RowsToMap(rows) ==
  [k \in {rows[i].key : i \in 1..Len(rows)} |->
     rows[CHOOSE i \in 1..Len(rows) :
            rows[i].key = k /\ \A j \in (i + 1)..Len(rows) : rows[j].key # k]]

\* existingOnCallMap, reduced to the name_id of each entry
OnCallMap(rows) == [k \in DOMAIN RowsToMap(rows) |-> RowsToMap(rows)[k].name_id]

GateRecord(date, main, backup) ==
  [key |-> date, main_name_id |-> main, backup_name_id |-> backup]

HourlyRecord(date, time, n) ==
  [key |-> <<date, time>>, name_id |-> n, is_edited |-> 0,
   original_name_id |-> NULL, reason |-> NullText]

WeeklyRecord(week, n) ==
  [key |-> week, name_id |-> n, is_edited |-> 0, original_name_id |-> NULL,
   reason |-> NullText, is_off_week |-> 0]

OnCallRecord(week, day, n) == [key |-> <<week, day>>, name_id |-> n]

\* the database after startup: empty tables, the on-call pointer record holding
\* the first name, no transaction open
EmptyTables ==
  [hourly |-> <<>>, gate |-> <<>>, weekly |-> <<>>, oncall |-> <<>>,
   rotation |-> Names[1], audit |-> <<>>]

NoTransaction == [active |-> FALSE, saved |-> EmptyTables]

\* BEGIN TRANSACTION: "cannot start a transaction within a transaction"
SqlBegin(c) ==
  IF c.transaction.active THEN [ok |-> FALSE, conn |-> c]
  ELSE [ok |-> TRUE,
        conn |-> [c EXCEPT !.transaction = [active |-> TRUE, saved |-> c.tables]]]

\* COMMIT: "cannot commit - no transaction is active"
SqlCommit(c) ==
  IF ~c.transaction.active THEN [ok |-> FALSE, conn |-> c]
  ELSE [ok |-> TRUE, conn |-> [c EXCEPT !.transaction = NoTransaction]]

\* ROLLBACK: "cannot rollback - no transaction is active"
SqlRollback(c) ==
  IF ~c.transaction.active THEN [ok |-> FALSE, conn |-> c]
  ELSE [ok |-> TRUE,
        conn |-> [tables |-> c.transaction.saved, transaction |-> NoTransaction]]

\* a request that is not running: before its arrival, and, with pc "done" (the
\* 200 response) or "failed" (the 500 response), after its end
NoArgs ==
  [date |-> 0, fromHour |-> 0, userName |-> NullText, reason |-> NullText,
   week |-> 0, name_id |-> NULL, is_off_week |-> "absent", time |-> 0]

NoRow == [exists |-> FALSE, original |-> NULL, changing |-> FALSE]

IdleRequest ==
  [pc |-> "idle", kind |-> "none", args |-> NoArgs, presentNames |-> <<>>,
   newMain |-> NULL, newBackup |-> NULL, shuffledNames |-> <<>>,
   row |-> NoRow, snap |-> <<>>, last |-> NULL, i |-> 0,
   failedAt |-> NullText, injected |-> FALSE, served |-> 0]

\* ------------------------------------------------------------ operations
\* what the handler's SELECT of the target row finds: no row, an
\* auto-generated row (is_edited = 0) or a pinned row (is_edited = 1)
RowStatus(table, key) ==
  IF key \notin DOMAIN table THEN "none"
  ELSE IF table[key].is_edited = 0 THEN "auto" ELSE "pinned"

\* regenerateAll(date), as one record of the tables it leaves
RegenerateAll(abs, h, g, w, oc, rot, date, shuffledNames) ==
  LET presentNames == PresentNames(abs, date)
      onc == GenerateOnCallSchedule(oc, rot, WeekOf(date), Names)
  IN [hourly |-> RegenerateHourlySchedule(h, date, 0, NullText, shuffledNames),
      gate |-> RegenerateGateAssignment(g, date, presentNames),
      weekly |-> RegenerateWeeklyDuty(w, WeekOf(date), Names),
      oncall |-> onc.oncall,
      rotation |-> onc.rotation]

Init ==
  /\ absences = {}
  /\ hourly = <<>>
  /\ gate = <<>>
  /\ weekly = <<>>
  /\ oncall = <<>>
  /\ rotation = Names[1]
  /\ audit = <<>>
  /\ lastOp = [op |-> "Init"]
  /\ steps = 0
  /\ conn = [tables |-> EmptyTables, transaction |-> NoTransaction]
  /\ req = [p \in Requests |-> IdleRequest]
  /\ auditView = [now |-> 0, stamps |-> <<>>, surfaced |-> 0]

\* GET /api/daily-data: regenerateAll(date), then reads only
EnsureGenerated(date, shuffledNames) ==
  /\ shuffledNames \in Shuffles(PresentNames(absences, date))
  /\ LET r == RegenerateAll(absences, hourly, gate, weekly, oncall, rotation,
                            date, shuffledNames)
     IN /\ hourly' = r.hourly
        /\ gate' = r.gate
        /\ weekly' = r.weekly
        /\ oncall' = r.oncall
        /\ rotation' = r.rotation
  /\ lastOp' = [op |-> "EnsureGenerated", date |-> date]
  /\ steps' = steps + 1
  /\ UNCHANGED <<absences, audit>>

\* the INSERT INTO audit_log at the end of regenerateHourlySchedule
AuditAppend(a, date, userName, reason) ==
  IF userName # NullText /\ reason # NullText
  THEN Append(a, [action_date |-> date, action_type |-> "shuffle",
                  user_name |-> userName, reason |-> reason])
  ELSE a

\* (variant: the audit entry written only when the pass assigns someone)
ReshuffleAuditIfAssigned(date, hour, userName, reason, shuffledNames) ==
  /\ userName # NullText /\ reason # NullText
  /\ shuffledNames \in Shuffles(PresentNames(absences, date))
  /\ hourly' = RegenerateHourlySchedule(hourly, date, hour, userName, shuffledNames)
  /\ audit' = IF Len(shuffledNames) > 0
              THEN AuditAppend(audit, date, userName, reason)
              ELSE audit
  /\ lastOp' = [op |-> "Reshuffle", date |-> date, hour |-> hour]
  /\ steps' = steps + 1
  /\ UNCHANGED <<absences, gate, weekly, oncall, rotation>>

\* POST /api/schedule/regenerate (hour || 0 is the cutoff)
Reshuffle(date, hour, userName, reason, shuffledNames) ==
  /\ userName # NullText /\ reason # NullText
  /\ shuffledNames \in Shuffles(PresentNames(absences, date))
  /\ hourly' = RegenerateHourlySchedule(hourly, date, hour, userName, shuffledNames)
  /\ audit' = AuditAppend(audit, date, userName, reason)
  /\ lastOp' = [op |-> "Reshuffle", date |-> date, hour |-> hour]
  /\ steps' = steps + 1
  /\ UNCHANGED <<absences, gate, weekly, oncall, rotation>>

\* (variant: original_name_id overwritten on every override)
HourlyOverrideRecapture(h, date, time, name_id, reason) ==
  LET key == <<date, time>>
  IN IF key \in DOMAIN h
     THEN [h EXCEPT ![key] = HourlyRow(name_id, 1, h[key].name_id, reason)]
     ELSE (key :> HourlyRow(name_id, 1, NULL, reason)) @@ h

\* (variant: the override written without setting is_edited)
HourlyOverrideNotPinned(h, date, time, name_id, reason) ==
  LET key == <<date, time>>
  IN IF key \in DOMAIN h
     THEN [h EXCEPT ![key] = HourlyRow(name_id, 0, h[key].name_id, reason)]
     ELSE (key :> HourlyRow(name_id, 0, NULL, reason)) @@ h

\* the UPDATE / INSERT of POST /api/schedule/override
HourlyOverride(h, date, time, name_id, reason) ==
  LET key == <<date, time>>
  IN IF key \in DOMAIN h
     THEN [h EXCEPT ![key] =
             HourlyRow(name_id, 1,
                       IF h[key].is_edited = 0 THEN h[key].name_id
                       ELSE h[key].original_name_id,
                       reason)]
     ELSE (key :> HourlyRow(name_id, 1, NULL, reason)) @@ h

\* POST /api/schedule/override
OverrideHourlySlot(date, time, name_id, reason) ==
  /\ name_id # NULL /\ reason # NullText
  /\ hourly' = HourlyOverride(hourly, date, time, name_id, reason)
  /\ lastOp' = [op |-> "OverrideHourlySlot", date |-> date, time |-> time,
                name_id |-> name_id, reason |-> reason,
                row |-> RowStatus(hourly, <<date, time>>)]
  /\ steps' = steps + 1
  /\ UNCHANGED <<absences, gate, weekly, oncall, rotation, audit>>

\* the request validation of POST /api/weekly-duty/override: is_off_week is
\* "0" or "1" for the numbers 0 and 1, "absent" for a missing or false flag
WeeklyOverrideValid(name_id, reason, is_off_week) ==
  ~((name_id = NULL /\ is_off_week = "0") \/ reason = NullText)

\* originalNameIdToSave
OriginalNameIdToSave(w, week, actualNameId) ==
  IF week \in DOMAIN w /\ w[week].is_edited = 0 /\ w[week].name_id # actualNameId
  THEN w[week].name_id
  ELSE IF week \in DOMAIN w /\ w[week].is_edited = 1
  THEN w[week].original_name_id
  ELSE NULL

\* (variant: the DELETE without its is_edited = 0 condition)
WeeklyDeleteAfterAlsoEdited(w, week) ==
  LET keep == {k \in DOMAIN w : ~(k > week)}
  IN [k \in keep |-> w[k]]

\* DELETE FROM weekly_duty WHERE week_start_date > ? AND is_edited = 0
WeeklyDeleteAfter(w, week) ==
  LET keep == {k \in DOMAIN w : ~(k > week /\ w[k].is_edited = 0)}
  IN [k \in keep |-> w[k]]

\* isOffWeekStatusChanging = oldIsOffWeekInt !== newIsOffWeekInt
IsOffWeekStatusChanging(w, week, is_off_week) ==
  LET newIsOffWeekInt == IF is_off_week = "1" THEN 1 ELSE 0
      oldIsOffWeekInt == IF week \in DOMAIN w THEN w[week].is_off_week ELSE 0
  IN oldIsOffWeekInt # newIsOffWeekInt

\* (variant: the re-shift made on every override, whatever the off-week status)
WeeklyOverrideAlwaysReshift(w, week, name_id, reason, is_off_week) ==
  LET newIsOffWeekInt == IF is_off_week = "1" THEN 1 ELSE 0
      actualNameId == IF newIsOffWeekInt = 1 THEN NULL ELSE name_id
      row == WeeklyRow(actualNameId, 1,
                       OriginalNameIdToSave(w, week, actualNameId),
                       reason, newIsOffWeekInt)
      written == IF week \in DOMAIN w
                 THEN [w EXCEPT ![week] = row]
                 ELSE (week :> WeeklyRow(actualNameId, 1, NULL, reason,
                                         newIsOffWeekInt)) @@ w
  IN RegenerateWeeklyDuty(WeeklyDeleteAfter(written, week), week, Names)

\* the transaction body of POST /api/weekly-duty/override
WeeklyOverride(w, week, name_id, reason, is_off_week) ==
  LET newIsOffWeekInt == IF is_off_week = "1" THEN 1 ELSE 0
      actualNameId == IF newIsOffWeekInt = 1 THEN NULL ELSE name_id
      row == WeeklyRow(actualNameId, 1,
                       OriginalNameIdToSave(w, week, actualNameId),
                       reason, newIsOffWeekInt)
      written == IF week \in DOMAIN w
                 THEN [w EXCEPT ![week] = row]
                 ELSE (week :> WeeklyRow(actualNameId, 1, NULL, reason,
                                         newIsOffWeekInt)) @@ w
  IN IF IsOffWeekStatusChanging(w, week, is_off_week)
     THEN RegenerateWeeklyDuty(WeeklyDeleteAfter(written, week), week, Names)
     ELSE written

\* POST /api/weekly-duty/override
OverrideWeeklyDuty(week, name_id, reason, is_off_week) ==
  /\ WeeklyOverrideValid(name_id, reason, is_off_week)
  /\ weekly' = WeeklyOverride(weekly, week, name_id, reason, is_off_week)
  /\ lastOp' = [op |-> "OverrideWeeklyDuty", week |-> week,
                name_id |-> name_id, is_off_week |-> is_off_week,
                row |-> RowStatus(weekly, week),
                isOffWeekStatusChanging |->
                  IsOffWeekStatusChanging(weekly, week, is_off_week)]
  /\ steps' = steps + 1
  /\ UNCHANGED <<absences, hourly, gate, oncall, rotation, audit>>

\* POST /api/absences/toggle
ToggleAbsence(name_id, date) ==
  /\ absences' = IF <<name_id, date>> \in absences
                 THEN absences \ {<<name_id, date>>}
                 ELSE absences \cup {<<name_id, date>>}
  /\ lastOp' = [op |-> "ToggleAbsence", date |-> date]
  /\ steps' = steps + 1
  /\ UNCHANGED <<hourly, gate, weekly, oncall, rotation, audit>>

NameIds == SeqToSet(Names)

\* the request bodies tried for the weekly override, as <<name_id, is_off_week>>:
\* a person with the flag 0, the off-week flag, and a missing person with a
\* missing flag and with the flag 0
WeeklyRequests ==
  {<<n, "0">> : n \in NameIds} \cup {<<NULL, "1">>, <<NULL, "absent">>, <<NULL, "0">>}

DoEnsureGenerated ==
  \E d \in Dates : \E s \in Shuffles(PresentNames(absences, d)) :
    EnsureGenerated(d, s)

\* a read whose shuffle happens to leave the present names in roster order
DoEnsureGeneratedInOrder ==
  \E d \in Dates : EnsureGenerated(d, PresentNames(absences, d))

DoReshuffle ==
  \E d \in Dates, h \in CutoffHours, u \in Actors, r \in ShuffleReasons :
    \E s \in Shuffles(PresentNames(absences, d)) : Reshuffle(d, h, u, r, s)

DoOverrideHourlySlot ==
  \E d \in Dates, t \in OverrideHours, n \in NameIds, r \in Reasons :
    OverrideHourlySlot(d, t, n, r)

DoOverrideWeeklyDuty ==
  \E w \in OverrideWeeks, q \in WeeklyRequests, r \in WeeklyReasons :
    OverrideWeeklyDuty(w, q[1], r, q[2])

DoToggleAbsence ==
  \E n \in NameIds, d \in Dates : ToggleAbsence(n, d)

\* every operation, in any order
Next ==
  /\ steps \in StepRange
  /\ UNCHANGED <<conn, req, auditView>>
  /\ \/ DoEnsureGenerated
     \/ DoReshuffle
     \/ DoOverrideHourlySlot
     \/ DoOverrideWeeklyDuty
     \/ DoToggleAbsence

Spec == Init /\ [][Next]_vars

\* the weekly-duty rotator with its override
NextWeekly ==
  /\ steps \in LongStepRange
  /\ UNCHANGED <<conn, req, auditView>>
  /\ \/ DoEnsureGeneratedInOrder
     \/ DoOverrideWeeklyDuty

SpecWeekly == Init /\ [][NextWeekly]_vars

\* the hourly distributor with reshuffle and override
NextHourly ==
  /\ steps \in StepRange
  /\ UNCHANGED <<conn, req, auditView>>
  /\ \/ DoEnsureGenerated
     \/ DoReshuffle
     \/ DoOverrideHourlySlot

SpecHourly == Init /\ [][NextHourly]_vars

\* the gate assigner under changing absences
NextGate ==
  /\ steps \in LongStepRange
  /\ UNCHANGED <<conn, req, auditView>>
  /\ \/ DoEnsureGenerated
     \/ DoToggleAbsence

SpecGate == Init /\ [][NextGate]_vars

\* the rosters a date can have present: the names 1..MaxPresent that are not
\* absent, in id order (the database is seeded with six names)
PresentRosters ==
  {SelectSeq([i \in 1..MaxPresent |-> i], LAMBDA n : n \in S) :
     S \in SUBSET (1..MaxPresent)}

\* the hourly pass of regenerateAll(date) for a roster of present names
GenerateHourly(date, presentNames, shuffledNames) ==
  /\ shuffledNames \in Shuffles(presentNames)
  /\ hourly' = RegenerateHourlySchedule(hourly, date, 0, NullText, shuffledNames)
  /\ lastOp' = [op |-> "GenerateHourly", date |-> date,
                presentNames |-> presentNames]
  /\ steps' = steps + 1
  /\ UNCHANGED <<absences, gate, weekly, oncall, rotation, audit, conn, req,
                 auditView>>

\* the hourly distributor alone, on a new date, over every roster of present
\* names
NextDistribution ==
  /\ steps = 0
  /\ \E d \in Dates, present \in PresentRosters :
       \E s \in Shuffles(present) : GenerateHourly(d, present, s)

SpecDistribution == Init /\ [][NextDistribution]_vars

\* the dates read in the on-call specification: the Mondays of weeks 0, 1, 2
OnCallDates == {0, DaysPerWeek, 2 * DaysPerWeek}

\* the server listens as soon as the setup statements are queued: the first
\* requests can be served before the startup callbacks have written the row of
\* oncall_rotation_state
InitOnCall ==
  /\ absences = {}
  /\ hourly = <<>>
  /\ gate = <<>>
  /\ weekly = <<>>
  /\ oncall = <<>>
  /\ rotation = NULL
  /\ audit = <<>>
  /\ lastOp = [op |-> "Init"]
  /\ steps = 0
  /\ conn = [tables |-> EmptyTables, transaction |-> NoTransaction]
  /\ req = [p \in Requests |-> IdleRequest]
  /\ auditView = [now |-> 0, stamps |-> <<>>, surfaced |-> 0]

\* the startup callbacks: SELECT COUNT(*) FROM oncall_rotation_state, and when
\* it is 0 the INSERT of the first name's id
StartupRotationState ==
  /\ rotation = NULL
  /\ rotation' = Names[1]
  /\ lastOp' = [op |-> "StartupRotationState"]
  /\ steps' = steps + 1
  /\ UNCHANGED <<absences, hourly, gate, weekly, oncall, audit>>

DoEnsureGeneratedOnCall ==
  \E d \in OnCallDates : \E s \in Shuffles(PresentNames(absences, d)) :
    EnsureGenerated(d, s)

\* the on-call rota: reads of three weeks in any order, from startup on
NextOnCall ==
  /\ steps \in LongStepRange
  /\ UNCHANGED <<conn, req, auditView>>
  /\ \/ StartupRotationState
     \/ DoEnsureGeneratedOnCall

SpecOnCall == InitOnCall /\ [][NextOnCall]_vars

\* the seconds at which the clock can still advance
ClockRange == 0..1

\* SELECT user_name, reason, timestamp FROM audit_log WHERE action_date = ? AND
\* action_type = 'shuffle' ORDER BY timestamp DESC LIMIT 1: the rows the query
\* can return, SQL leaving open which of the rows with the greatest timestamp
\* comes first
AuditQuery(a, stamps, date) ==
  LET rows == {i \in 1..Len(a) : a[i].action_date = date /\ a[i].action_type = "shuffle"}
  IN IF rows = {} THEN {0}
     ELSE {i \in rows : \A j \in rows : stamps[j] <= stamps[i]}

\* a second passes
Tick ==
  /\ auditView.now \in ClockRange
  /\ auditView' = [auditView EXCEPT !.now = @ + 1]
  /\ UNCHANGED <<absences, hourly, gate, weekly, oncall, rotation, audit,
                 lastOp, steps>>

\* POST /api/schedule/regenerate with its response: the audit row gets the
\* current second as timestamp, and the handler reads back the most recent
\* entry of the date
ReshuffleAndRead(date, hour, userName, reason, shuffledNames) ==
  /\ Reshuffle(date, hour, userName, reason, shuffledNames)
  /\ \E i \in AuditQuery(audit', Append(auditView.stamps, auditView.now), date) :
       auditView' = [auditView EXCEPT !.stamps = Append(@, auditView.now),
                                      !.surfaced = i]

\* GET /api/daily-data with its response
DailyData(date, shuffledNames) ==
  /\ EnsureGenerated(date, shuffledNames)
  /\ \E i \in AuditQuery(audit, auditView.stamps, date) :
       auditView' = [auditView EXCEPT !.surfaced = i]

\* reshuffles and reads as the clock advances (the shuffles left in roster
\* order: the audit entries do not depend on them)
NextAudit ==
  /\ steps \in StepRange
  /\ UNCHANGED <<conn, req>>
  /\ \/ Tick
     \/ \E d \in Dates, h \in CutoffHours, u \in Actors, r \in Reasons :
          ReshuffleAndRead(d, h, u, r, PresentNames(absences, d))
     \/ \E d \in Dates : DailyData(d, PresentNames(absences, d))

SpecAudit == Init /\ [][NextAudit]_vars

\* ------------------------------------------- requests, statement by statement
\* A step of a request runs one awaited statement on the connection and the
\* synchronous code up to the next await. The parameter fail makes the statement
\* of the step fail with a storage error.

\* the request ends: res.json(...) for "done", res.status(500) for "failed"
Finished(r, outcome) ==
  [IdleRequest EXCEPT !.pc = outcome, !.kind = r.kind,
                      !.failedAt = r.failedAt,
                      !.injected = r.injected, !.served = r.served]

Goto(p, r) == req' = [req EXCEPT ![p] = r]

\* the request's statement has failed: failedAt keeps the place of its first
\* failure, injected whether a storage error was the cause
Failing(r, fail) ==
  [r EXCEPT !.failedAt = IF r.failedAt = NullText THEN r.pc ELSE r.failedAt,
            !.injected = r.injected \/ fail]

\* an error thrown up to the route handler's catch: the 500 response
Throw(p, fail) ==
  /\ Goto(p, Finished(Failing(req[p], fail), "failed"))
  /\ UNCHANGED conn

SetTable(c, name, rows) == [c EXCEPT !.tables[name] = rows]

\* GET /api/daily-data?date=..: the two SELECTs that open regenerateAll
ArriveDaily(p, date, fail) ==
  /\ req[p].pc \in {"idle", "done", "failed"}
  /\ IF fail
     THEN Throw(p, fail)
     ELSE /\ Goto(p, [IdleRequest EXCEPT
                        !.pc = "gateExisting", !.kind = "daily",
                        !.args = [NoArgs EXCEPT !.date = date],
                        !.presentNames = PresentNames(absences, date),
                        !.injected = req[p].injected,
                        !.served = req[p].served + 1])
          /\ UNCHANGED conn

\* regenerateGateAssignment: SELECT * FROM gate_assignments WHERE assignment_date = ?
GateExisting(p, fail) ==
  /\ req[p].pc = "gateExisting"
  /\ IF fail THEN Throw(p, fail)
     ELSE /\ Goto(p, [req[p] EXCEPT !.pc =
                        IF \/ SqlExists(conn.tables.gate, req[p].args.date)
                           \/ Len(req[p].presentNames) = 0
                        THEN "hourlyExisting" ELSE "gatePrev"])
          /\ UNCHANGED conn

\* the SELECT of the previous day's record and the choice of main and backup
GatePrev(p, fail) ==
  /\ req[p].pc = "gatePrev"
  /\ IF fail THEN Throw(p, fail)
     ELSE LET date == req[p].args.date
              prev == IF SqlExists(conn.tables.gate, date - 1)
                      THEN (date - 1) :> RowsToMap(conn.tables.gate)[date - 1]
                      ELSE <<>>
              new == RegenerateGateAssignment(prev, date, req[p].presentNames)[date]
          IN /\ Goto(p, [req[p] EXCEPT !.pc = "gateInsert",
                                       !.newMain = new.main_name_id,
                                       !.newBackup = new.backup_name_id])
             /\ UNCHANGED conn

\* INSERT INTO gate_assignments ...: a rejected INSERT is thrown to the handler
GateInsert(p, fail) ==
  /\ req[p].pc = "gateInsert"
  /\ LET ins == SqlInsert(conn.tables.gate,
                          GateRecord(req[p].args.date, req[p].newMain,
                                     req[p].newBackup))
     IN IF fail \/ ~ins.ok THEN Throw(p, fail)
        ELSE /\ conn' = SetTable(conn, "gate", ins.rows)
             /\ Goto(p, [req[p] EXCEPT !.pc = "hourlyExisting",
                                       !.newMain = NULL, !.newBackup = NULL])

\* regenerateHourlySchedule: SELECT * FROM hourly_schedule WHERE scheduled_date = ?
HourlyExisting(p, fail) ==
  /\ req[p].pc = "hourlyExisting"
  /\ IF fail THEN Throw(p, fail)
     ELSE /\ Goto(p, [req[p] EXCEPT !.pc =
                        IF /\ \E i \in 1..Len(conn.tables.hourly) :
                                conn.tables.hourly[i].key[1] = req[p].args.date
                           /\ req[p].args.userName = NullText
                        THEN "weeklyAll" ELSE "hourlyBegin"])
          /\ UNCHANGED conn

\* BEGIN TRANSACTION, before the try block
HourlyBegin(p, fail) ==
  /\ req[p].pc = "hourlyBegin"
  /\ LET b == SqlBegin(conn)
     IN IF fail \/ ~b.ok THEN Throw(p, fail)
        ELSE /\ conn' = b.conn
             /\ Goto(p, [req[p] EXCEPT !.pc = "hourlyDelete"])

HourlyTimeSlots(r) == SelectSeq(TimeSlotList, LAMBDA t : t >= r.args.fromHour)

\* after the last INSERT of the loop: the audit INSERT or the COMMIT
AfterHourlyInserts(r) ==
  IF r.args.userName # NullText /\ r.args.reason # NullText
  THEN "hourlyAudit" ELSE "hourlyCommit"

\* DELETE FROM hourly_schedule WHERE ... is_edited = 0, then the shuffle
HourlyDeleteStatement(p, fail, shuffledNames) ==
  /\ req[p].pc = "hourlyDelete"
  /\ shuffledNames \in Shuffles(req[p].presentNames)
  /\ IF fail
     THEN /\ Goto(p, [Failing(req[p], fail) EXCEPT !.pc = "hourlyRollback"])
          /\ UNCHANGED conn
     ELSE /\ conn' = SetTable(conn, "hourly",
                       SelectSeq(conn.tables.hourly,
                                 LAMBDA row : ~(/\ row.key[1] = req[p].args.date
                                                /\ row.key[2] >= req[p].args.fromHour
                                                /\ row.is_edited = 0)))
          /\ Goto(p, IF Len(req[p].presentNames) > 0 /\ Len(HourlyTimeSlots(req[p])) > 0
                     THEN [req[p] EXCEPT !.pc = "hourlyInsert", !.i = 1,
                                         !.shuffledNames = shuffledNames]
                     ELSE [req[p] EXCEPT !.pc = AfterHourlyInserts(req[p])])

\* INSERT OR IGNORE INTO hourly_schedule ..., one time slot
HourlyInsertStatement(p, fail) ==
  /\ req[p].pc = "hourlyInsert"
  /\ IF fail
     THEN /\ Goto(p, [Failing(req[p], fail) EXCEPT !.pc = "hourlyRollback"])
          /\ UNCHANGED conn
     ELSE LET r == req[p]
              timeSlots == HourlyTimeSlots(r)
              assignedName == r.shuffledNames[((r.i - 1) % Len(r.shuffledNames)) + 1]
          IN /\ conn' = SetTable(conn, "hourly",
                          SqlInsertOrIgnore(conn.tables.hourly,
                            HourlyRecord(r.args.date, timeSlots[r.i], assignedName)))
             /\ Goto(p, IF r.i < Len(timeSlots)
                        THEN [r EXCEPT !.i = r.i + 1]
                        ELSE [r EXCEPT !.pc = AfterHourlyInserts(r), !.i = 0,
                                       !.shuffledNames = <<>>])

\* INSERT INTO audit_log ...
HourlyAudit(p, fail) ==
  /\ req[p].pc = "hourlyAudit"
  /\ IF fail
     THEN /\ Goto(p, [Failing(req[p], fail) EXCEPT !.pc = "hourlyRollback"])
          /\ UNCHANGED conn
     ELSE /\ conn' = SetTable(conn, "audit",
                       AuditAppend(conn.tables.audit, req[p].args.date,
                                   req[p].args.userName, req[p].args.reason))
          /\ Goto(p, [req[p] EXCEPT !.pc = "hourlyCommit"])

\* COMMIT; the hourly pass of a daily request is followed by the weekly pass,
\* that of a reshuffle by the SELECT of the audit entry and the response
HourlyCommit(p, fail) ==
  /\ req[p].pc = "hourlyCommit"
  /\ LET c == SqlCommit(conn)
     IN IF fail \/ ~c.ok
        THEN /\ Goto(p, [Failing(req[p], fail) EXCEPT !.pc = "hourlyRollback"])
             /\ UNCHANGED conn
        ELSE /\ conn' = c.conn
             /\ Goto(p, [req[p] EXCEPT !.pc = IF req[p].kind = "daily"
                                               THEN "weeklyAll" ELSE "respond"])

\* catch (err) { ROLLBACK; throw err }: either error reaches the handler
HourlyRollback(p, fail) ==
  /\ req[p].pc = "hourlyRollback"
  /\ LET rb == SqlRollback(conn)
     IN /\ conn' = IF fail \/ ~rb.ok THEN conn ELSE rb.conn
        /\ Goto(p, Finished(Failing(req[p], fail), "failed"))

\* the for loop of regenerateWeeklyDuty up to its next awaited statement: the
\* weeks kept as they are move the pointer, the first week to write stops it
RECURSIVE WeeklySkip(_, _, _, _)
WeeklySkip(snap, week, endWeek, last) ==
  IF week >= endWeek THEN [week |-> endWeek, last |-> last]
  ELSE IF ExistingFixedRecord(snap, week)
  THEN WeeklySkip(snap, week + 1, endWeek, PointerAfterFixed(Names, snap[week], last))
  ELSE IF /\ week \in DOMAIN snap
          /\ snap[week].is_edited = 0
          /\ snap[week].name_id # NULL
          /\ snap[week].is_off_week = 0
  THEN WeeklySkip(snap, week + 1, endWeek, snap[week].name_id)
  ELSE [week |-> week, last |-> last]

\* the trigger week of the weekly pass: of the date read, or the week overridden
WeeklyTrigger(r) == IF r.kind = "override" THEN r.args.week ELSE WeekOf(r.args.date)

\* where the request goes on after the weekly pass
AfterWeekly(r) ==
  IF r.kind = "override"
  THEN [r EXCEPT !.pc = "overrideCommit", !.snap = <<>>, !.last = NULL, !.i = 0]
  ELSE [r EXCEPT !.pc = "oncallState", !.snap = <<>>, !.last = NULL, !.i = 0]

\* an error thrown out of regenerateWeeklyDuty: to the handler of the daily
\* read, to the catch block of the override
WeeklyThrow(p, fail) ==
  IF req[p].kind = "override"
  THEN /\ Goto(p, [Failing(req[p], fail) EXCEPT !.pc = "overrideRollback"])
       /\ UNCHANGED conn
  ELSE Throw(p, fail)

\* SELECT * FROM weekly_duty ORDER BY week_start_date ASC
WeeklyAll(p, fail) ==
  /\ req[p].pc = "weeklyAll"
  /\ IF fail THEN WeeklyThrow(p, fail)
     ELSE /\ Goto(p, [req[p] EXCEPT !.pc = "weeklyRecent",
                                    !.snap = RowsToMap(conn.tables.weekly)])
          /\ UNCHANGED conn

\* the SELECT of mostRecentActualDutyBeforeTrigger, and the loop up to its
\* first write
WeeklyRecent(p, fail) ==
  /\ req[p].pc = "weeklyRecent"
  /\ IF fail THEN WeeklyThrow(p, fail)
     ELSE LET r == req[p]
              start == WeeklyTrigger(r)
              skip == WeeklySkip(r.snap, start, start + WEEKS_TO_GENERATE,
                        InitialLastAssigned(RowsToMap(conn.tables.weekly),
                                            Names, start))
          IN /\ Goto(p, IF skip.week >= start + WEEKS_TO_GENERATE
                        THEN AfterWeekly(r)
                        ELSE [r EXCEPT !.pc = "weeklyWrite", !.i = skip.week,
                                       !.last = skip.last])
             /\ UNCHANGED conn

\* UPDATE weekly_duty SET ... WHERE week_start_date = ?
SqlUpdateWeekly(rows, week, n) ==
  [i \in 1..Len(rows) |->
     IF rows[i].key = week THEN WeeklyRecord(week, n) ELSE rows[i]]

\* the UPDATE or the INSERT of one week, in its own try/catch: an error is
\* logged, the pointer is left as it was, and the loop goes on
WeeklyWrite(p, fail) ==
  /\ req[p].pc = "weeklyWrite"
  /\ LET r == req[p]
         start == WeeklyTrigger(r)
         expected == ExpectedDutyPerson(Names, r.last)
         ins == SqlInsert(conn.tables.weekly, WeeklyRecord(r.i, expected))
         ok == ~fail /\ (r.i \in DOMAIN r.snap \/ ins.ok)
         rows == IF ~ok THEN conn.tables.weekly
                 ELSE IF r.i \in DOMAIN r.snap
                 THEN SqlUpdateWeekly(conn.tables.weekly, r.i, expected)
                 ELSE ins.rows
         skip == WeeklySkip(r.snap, r.i + 1, start + WEEKS_TO_GENERATE,
                            IF ok THEN expected ELSE r.last)
         marked == IF ok THEN r ELSE Failing(r, fail)
     IN /\ conn' = SetTable(conn, "weekly", rows)
        /\ Goto(p, IF skip.week >= start + WEEKS_TO_GENERATE
                   THEN AfterWeekly(marked)
                   ELSE [marked EXCEPT !.i = skip.week, !.last = skip.last])

\* generateOnCallSchedule: SELECT last_assigned_name_id FROM
\* oncall_rotation_state (the record written at startup is always found)
OnCallState(p, fail) ==
  /\ req[p].pc = "oncallState"
  /\ IF fail THEN Throw(p, fail)
     ELSE /\ Goto(p, [req[p] EXCEPT !.pc = "oncallAll"])
          /\ UNCHANGED conn

\* SELECT week_start_date, day_of_week, name_id FROM oncall_schedule ...
OnCallAll(p, fail) ==
  /\ req[p].pc = "oncallAll"
  /\ IF fail THEN Throw(p, fail)
     ELSE /\ Goto(p, [req[p] EXCEPT !.pc = "oncallRecent",
                                    !.snap = OnCallMap(conn.tables.oncall)])
          /\ UNCHANGED conn

OnCallSlots == WEEKS_TO_GENERATE_ONCALL * Len(DAYS_OF_WEEK_KEYS)

OnCallKey(startWeek, n) ==
  <<startWeek + (n \div Len(DAYS_OF_WEEK_KEYS)), (n % Len(DAYS_OF_WEEK_KEYS)) + 1>>

\* (variant: an existing entry is passed over without becoming the current
\* person)
RECURSIVE OnCallSkipKeepsCurrent(_, _, _, _)
OnCallSkipKeepsCurrent(existing, startWeek, n, current) ==
  IF n >= OnCallSlots THEN [n |-> n, current |-> current]
  ELSE IF OnCallKey(startWeek, n) \in DOMAIN existing
  THEN OnCallSkipKeepsCurrent(existing, startWeek, n + 1, current)
  ELSE [n |-> n, current |-> current]

\* the two nested loops up to the next INSERT: an existing entry is passed
\* over and becomes the current person
RECURSIVE OnCallSkip(_, _, _, _)
OnCallSkip(existing, startWeek, n, current) ==
  IF n >= OnCallSlots THEN [n |-> n, current |-> current]
  ELSE IF OnCallKey(startWeek, n) \in DOMAIN existing
  THEN OnCallSkip(existing, startWeek, n + 1, existing[OnCallKey(startWeek, n)])
  ELSE [n |-> n, current |-> current]

\* the SELECT of mostRecentOnCallEntry, and the loops up to their first INSERT
OnCallRecent(p, fail) ==
  /\ req[p].pc = "oncallRecent"
  /\ IF fail THEN Throw(p, fail)
     ELSE LET r == req[p]
              skip == OnCallSkip(r.snap, WeekOf(r.args.date), 0,
                                 OnCallSeed(OnCallMap(conn.tables.oncall), Names))
          IN /\ Goto(p, [r EXCEPT !.pc = IF skip.n >= OnCallSlots
                                         THEN "oncallUpdate" ELSE "oncallInsert",
                                  !.i = skip.n, !.last = skip.current])
             /\ UNCHANGED conn

\* INSERT OR IGNORE INTO oncall_schedule ..., in its own try/catch
OnCallInsert(p, fail) ==
  /\ req[p].pc = "oncallInsert"
  /\ LET r == req[p]
         startWeek == WeekOf(r.args.date)
         key == OnCallKey(startWeek, r.i)
         nextPersonId == NextInList(Names, r.last)
         skip == OnCallSkip(r.snap, startWeek, r.i + 1,
                            IF fail THEN r.last ELSE nextPersonId)
         marked == IF fail THEN Failing(r, fail) ELSE r
     IN /\ conn' = IF fail THEN conn
                   ELSE SetTable(conn, "oncall",
                          SqlInsertOrIgnore(conn.tables.oncall,
                            OnCallRecord(key[1], key[2], nextPersonId)))
        /\ Goto(p, [marked EXCEPT !.pc = IF skip.n >= OnCallSlots
                                         THEN "oncallUpdate" ELSE "oncallInsert",
                                  !.i = skip.n, !.last = skip.current])

\* UPDATE oncall_rotation_state SET last_assigned_name_id = ?, in its own
\* try/catch
OnCallUpdate(p, fail) ==
  /\ req[p].pc = "oncallUpdate"
  /\ conn' = IF fail THEN conn ELSE SetTable(conn, "rotation", req[p].last)
  /\ Goto(p, [(IF fail THEN Failing(req[p], fail) ELSE req[p]) EXCEPT
                !.pc = "respond", !.snap = <<>>, !.last = NULL, !.i = 0])

\* the SELECTs that build the response: five under Promise.all for the daily
\* read, the audit entry for the reshuffle
Respond(p, fail) ==
  /\ req[p].pc = "respond"
  /\ IF fail THEN Throw(p, fail)
     ELSE /\ Goto(p, Finished(req[p], "done"))
          /\ UNCHANGED conn

\* POST /api/schedule/regenerate: regenerateHourlySchedule(date, hour || 0,
\* user_name, reason), which reads the present names itself
ArriveReshuffle(p, date, hour, userName, reason) ==
  /\ req[p].pc \in {"idle", "done", "failed"}
  /\ userName # NullText /\ reason # NullText
  /\ Goto(p, [IdleRequest EXCEPT
                !.pc = "hourlyExisting", !.kind = "reshuffle",
                !.args = [NoArgs EXCEPT !.date = date, !.fromHour = hour,
                                        !.userName = userName, !.reason = reason],
                !.presentNames = PresentNames(absences, date),
                !.injected = req[p].injected,
                !.served = req[p].served + 1])
  /\ UNCHANGED conn

\* an error inside the try block of POST /api/weekly-duty/override
OverrideCatch(p, fail) ==
  /\ Goto(p, [Failing(req[p], fail) EXCEPT !.pc = "overrideRollback"])
  /\ UNCHANGED conn

\* POST /api/weekly-duty/override: the validation, and BEGIN TRANSACTION as
\* the first statement of the try block
ArriveOverride(p, week, name_id, reason, is_off_week, fail) ==
  /\ req[p].pc \in {"idle", "done", "failed"}
  /\ WeeklyOverrideValid(name_id, reason, is_off_week)
  /\ LET b == SqlBegin(conn)
         r == [IdleRequest EXCEPT
                 !.pc = "overrideRow", !.kind = "override",
                 !.args = [NoArgs EXCEPT !.week = week, !.name_id = name_id,
                                         !.reason = reason,
                                         !.is_off_week = is_off_week],
                 !.injected = req[p].injected,
                 !.served = req[p].served + 1]
     IN IF fail \/ ~b.ok
        THEN /\ Goto(p, [Failing([r EXCEPT !.pc = "overrideBegin"], fail)
                           EXCEPT !.pc = "overrideRollback"])
             /\ UNCHANGED conn
        ELSE /\ conn' = b.conn
             /\ Goto(p, r)

\* SELECT ... FROM weekly_duty WHERE week_start_date = ?, and what the handler
\* derives from the row
OverrideRow(p, fail) ==
  /\ req[p].pc = "overrideRow"
  /\ IF fail THEN OverrideCatch(p, fail)
     ELSE LET r == req[p]
              w == RowsToMap(conn.tables.weekly)
              actualNameId == IF r.args.is_off_week = "1" THEN NULL ELSE r.args.name_id
          IN /\ Goto(p, [r EXCEPT
                  !.pc = "overrideWrite",
                  !.row = [exists |-> r.args.week \in DOMAIN w,
                           original |-> OriginalNameIdToSave(w, r.args.week, actualNameId),
                           changing |-> IsOffWeekStatusChanging(w, r.args.week,
                                                                r.args.is_off_week)]])
             /\ UNCHANGED conn

\* the UPDATE of the row found, or the INSERT of a pinned row
OverrideWrite(p, fail) ==
  /\ req[p].pc = "overrideWrite"
  /\ LET r == req[p]
         newIsOffWeekInt == IF r.args.is_off_week = "1" THEN 1 ELSE 0
         actualNameId == IF newIsOffWeekInt = 1 THEN NULL ELSE r.args.name_id
         new == [key |-> r.args.week, name_id |-> actualNameId, is_edited |-> 1,
                 original_name_id |-> r.row.original, reason |-> r.args.reason,
                 is_off_week |-> newIsOffWeekInt]
         ins == SqlInsert(conn.tables.weekly, new)
     IN IF fail \/ (~r.row.exists /\ ~ins.ok) THEN OverrideCatch(p, fail)
        ELSE /\ conn' = SetTable(conn, "weekly",
                          IF r.row.exists
                          THEN [i \in 1..Len(conn.tables.weekly) |->
                                  IF conn.tables.weekly[i].key = r.args.week
                                  THEN new ELSE conn.tables.weekly[i]]
                          ELSE ins.rows)
             /\ Goto(p, [r EXCEPT !.pc = IF r.row.changing THEN "overrideDelete"
                                         ELSE "overrideCommit"])

\* DELETE FROM weekly_duty WHERE week_start_date > ? AND is_edited = 0
OverrideDelete(p, fail) ==
  /\ req[p].pc = "overrideDelete"
  /\ IF fail THEN OverrideCatch(p, fail)
     ELSE /\ conn' = SetTable(conn, "weekly",
                       SelectSeq(conn.tables.weekly,
                                 LAMBDA row : ~(row.key > req[p].args.week
                                                /\ row.is_edited = 0)))
          /\ Goto(p, [req[p] EXCEPT !.pc = "overrideNames"])

\* SELECT * FROM names ORDER BY id, the argument of regenerateWeeklyDuty
OverrideNames(p, fail) ==
  /\ req[p].pc = "overrideNames"
  /\ IF fail THEN OverrideCatch(p, fail)
     ELSE /\ Goto(p, [req[p] EXCEPT !.pc = "weeklyAll"])
          /\ UNCHANGED conn

\* COMMIT and the 200 response
OverrideCommit(p, fail) ==
  /\ req[p].pc = "overrideCommit"
  /\ LET c == SqlCommit(conn)
     IN IF fail \/ ~c.ok THEN OverrideCatch(p, fail)
        ELSE /\ conn' = c.conn
             /\ Goto(p, Finished(req[p], "done"))

\* catch (err) { ROLLBACK; res.status(500) }: a failing ROLLBACK rejects the
\* handler, and the tables stay as they are
OverrideRollback(p, fail) ==
  /\ req[p].pc = "overrideRollback"
  /\ LET rb == SqlRollback(conn)
     IN /\ conn' = IF fail \/ ~rb.ok THEN conn ELSE rb.conn
        /\ Goto(p, Finished(Failing(req[p], fail), "failed"))

\* POST /api/schedule/override: the validation, and BEGIN TRANSACTION as the
\* first statement of the try block
ArriveSlotOverride(p, date, time, name_id, reason, fail) ==
  /\ req[p].pc \in {"idle", "done", "failed"}
  /\ name_id # NULL /\ reason # NullText
  /\ LET b == SqlBegin(conn)
         r == [IdleRequest EXCEPT
                 !.pc = "slotOverrideRow", !.kind = "slotOverride",
                 !.args = [NoArgs EXCEPT !.date = date, !.time = time,
                                         !.name_id = name_id, !.reason = reason],
                 !.injected = req[p].injected,
                 !.served = req[p].served + 1]
     IN IF fail \/ ~b.ok
        THEN /\ Goto(p, [Failing([r EXCEPT !.pc = "slotOverrideBegin"], fail)
                           EXCEPT !.pc = "overrideRollback"])
             /\ UNCHANGED conn
        ELSE /\ conn' = b.conn
             /\ Goto(p, r)

\* SELECT id, name_id, is_edited FROM hourly_schedule WHERE scheduled_date = ?
\* AND scheduled_time = ?
SlotOverrideRow(p, fail) ==
  /\ req[p].pc = "slotOverrideRow"
  /\ IF fail THEN OverrideCatch(p, fail)
     ELSE LET r == req[p]
              h == RowsToMap(conn.tables.hourly)
              key == <<r.args.date, r.args.time>>
          IN /\ Goto(p, [r EXCEPT
                  !.pc = "slotOverrideWrite",
                  !.row = [exists |-> key \in DOMAIN h,
                           original |-> IF key \in DOMAIN h THEN h[key].name_id
                                        ELSE NULL,
                           changing |-> FALSE]])
             /\ UNCHANGED conn

\* the UPDATE of the row found, or the INSERT of a pinned row
SlotOverrideWrite(p, fail) ==
  /\ req[p].pc = "slotOverrideWrite"
  /\ LET r == req[p]
         key == <<r.args.date, r.args.time>>
         ins == SqlInsert(conn.tables.hourly,
                  [key |-> key, name_id |-> r.args.name_id, is_edited |-> 1,
                   original_name_id |-> NULL, reason |-> r.args.reason])
     IN IF fail \/ (~r.row.exists /\ ~ins.ok) THEN OverrideCatch(p, fail)
        ELSE /\ conn' = SetTable(conn, "hourly",
                          IF r.row.exists
                          THEN [i \in 1..Len(conn.tables.hourly) |->
                                  LET old == conn.tables.hourly[i]
                                  IN IF old.key = key
                                     THEN [key |-> key, name_id |-> r.args.name_id,
                                           is_edited |-> 1,
                                           original_name_id |->
                                             IF old.is_edited = 0 THEN r.row.original
                                             ELSE old.original_name_id,
                                           reason |-> r.args.reason]
                                     ELSE old]
                          ELSE ins.rows)
             /\ Goto(p, [r EXCEPT !.pc = "overrideCommit"])

\* one statement of a request in flight
Statement(p, fail) ==
  \/ GateExisting(p, fail)
  \/ GatePrev(p, fail)
  \/ GateInsert(p, fail)
  \/ HourlyExisting(p, fail)
  \/ HourlyBegin(p, fail)
  \/ \E s \in Shuffles(req[p].presentNames) : HourlyDeleteStatement(p, fail, s)
  \/ HourlyInsertStatement(p, fail)
  \/ HourlyAudit(p, fail)
  \/ HourlyCommit(p, fail)
  \/ HourlyRollback(p, fail)
  \/ WeeklyAll(p, fail)
  \/ WeeklyRecent(p, fail)
  \/ WeeklyWrite(p, fail)
  \/ OnCallState(p, fail)
  \/ OnCallAll(p, fail)
  \/ OnCallRecent(p, fail)
  \/ OnCallInsert(p, fail)
  \/ OnCallUpdate(p, fail)
  \/ Respond(p, fail)
  \/ OverrideRow(p, fail)
  \/ OverrideWrite(p, fail)
  \/ OverrideDelete(p, fail)
  \/ OverrideNames(p, fail)
  \/ OverrideCommit(p, fail)
  \/ OverrideRollback(p, fail)
  \/ SlotOverrideRow(p, fail)
  \/ SlotOverrideWrite(p, fail)

\* the date that two requests read at the same time
ConcurrentDate == DaysPerWeek

\* two reads of one date never read before, interleaved at their awaits, with
\* no storage error other than those the statements raise themselves
NextConcurrent ==
  /\ UNCHANGED <<absences, hourly, gate, weekly, oncall, rotation, audit,
                 lastOp, steps, auditView>>
  /\ \E p \in Requests :
       \/ req[p].served = 0 /\ ArriveDaily(p, ConcurrentDate, FALSE)
       \/ Statement(p, FALSE)

SpecConcurrent == Init /\ [][NextConcurrent]_vars

\* the requests a single client sends one after the other
ServedRange == 0..1

\* one client: a read, a reshuffle or a weekly override after the other, with
\* at most one statement failing with a storage error
NextFailure ==
  /\ UNCHANGED <<absences, hourly, gate, weekly, oncall, rotation, audit, steps,
                 auditView>>
  /\ lastOp' = IF req[1].pc \in {"idle", "done", "failed"}
               THEN [op |-> "Request", before |-> conn.tables]
               ELSE lastOp
  /\ req[1].served \in ServedRange \/ req[1].pc \notin {"idle", "done", "failed"}
  /\ \E fail \in BOOLEAN :
       /\ fail => ~req[1].injected
       /\ \/ /\ req[1].served \in ServedRange
             /\ \/ ArriveDaily(1, ConcurrentDate, fail)
                \/ /\ ~fail
                   /\ \E h \in CutoffHours, u \in Actors, r \in ShuffleReasons :
                        ArriveReshuffle(1, ConcurrentDate, h, u, r)
                \/ \E q \in WeeklyRequests, r \in WeeklyReasons :
                     ArriveOverride(1, WeekOf(ConcurrentDate), q[1], r, q[2], fail)
          \/ Statement(1, fail)

SpecFailure == Init /\ [][NextFailure]_vars

\* the reads a single client sends one after the other
ReadsServed == 0..1

\* one client reading two of the weeks 0, 1 and 2 (or one of them twice), with
\* at most one statement failing with a storage error
NextReads ==
  /\ UNCHANGED <<absences, hourly, gate, weekly, oncall, rotation, audit,
                 lastOp, steps, auditView>>
  /\ \E fail \in BOOLEAN :
       /\ fail => ~req[1].injected
       /\ \/ /\ req[1].served \in ReadsServed
             /\ \E d \in OnCallDates : ArriveDaily(1, d, fail)
          \/ Statement(1, fail)

SpecReads == Init /\ [][NextReads]_vars

\* a reshuffle or a read by one client and an override by another, interleaved
\* at their awaits, with no storage error other than those the statements
\* raise themselves
NextIsolation ==
  /\ UNCHANGED <<absences, hourly, gate, weekly, oncall, rotation, audit,
                 lastOp, steps, auditView>>
  /\ \/ /\ req[1].served = 0
        /\ \/ \E h \in CutoffHours, u \in Actors, r \in ShuffleReasons :
                ArriveReshuffle(1, ConcurrentDate, h, u, r)
           \/ ArriveDaily(1, ConcurrentDate, FALSE)
     \/ /\ req[2].served = 0
        /\ \/ \E q \in WeeklyRequests, r \in WeeklyReasons :
                ArriveOverride(2, WeekOf(ConcurrentDate), q[1], r, q[2], FALSE)
           \/ \E t \in OverrideHours, n \in NameIds, r \in Reasons :
                ArriveSlotOverride(2, ConcurrentDate, t, n, r, FALSE)
     \/ \E p \in Requests : Statement(p, FALSE)

SpecIsolation == Init /\ [][NextIsolation]_vars

\* ================================================================ claims
PinnedHourly(h) == {k \in DOMAIN h : h[k].is_edited = 1}
PinnedWeeks(w) == {k \in DOMAIN w : w[k].is_edited = 1}

\* C1 - pin immutability: an EnsureGenerated step leaves every pinned hourly
\* slot and every pinned weekly slot in place with the same occupant, reason
\* and original occupant
C1_PinImmutability ==
  [][lastOp'.op = "EnsureGenerated" =>
       /\ \A k \in PinnedHourly(hourly) :
            /\ k \in DOMAIN hourly'
            /\ hourly'[k].name_id = hourly[k].name_id
            /\ hourly'[k].reason = hourly[k].reason
            /\ hourly'[k].original_name_id = hourly[k].original_name_id
       /\ \A k \in PinnedWeeks(weekly) :
            /\ k \in DOMAIN weekly'
            /\ weekly'[k].name_id = weekly[k].name_id
            /\ weekly'[k].reason = weekly[k].reason
            /\ weekly'[k].original_name_id = weekly[k].original_name_id]_vars

\* an EnsureGenerated has run for a date that has a pinned hourly slot, in a
\* week that is pinned
C1_Witness ==
  /\ lastOp.op = "EnsureGenerated"
  /\ \E k \in PinnedHourly(hourly) : k[1] = lastOp.date
  /\ WeekOf(lastOp.date) \in PinnedWeeks(weekly)

\* C2 - idempotence: right after EnsureGenerated(date), a second
\* EnsureGenerated(date), whatever its shuffle, leaves the hourly, gate, weekly
\* and on-call tables and the on-call pointer record as they are
C2_Idempotence ==
  lastOp.op = "EnsureGenerated" =>
    \A s \in Shuffles(PresentNames(absences, lastOp.date)) :
      LET r == RegenerateAll(absences, hourly, gate, weekly, oncall, rotation,
                             lastOp.date, s)
      IN /\ r.hourly = hourly
         /\ r.gate = gate
         /\ r.weekly = weekly
         /\ r.oncall = oncall
         /\ r.rotation = rotation

\* EnsureGenerated has run for a date that has a pinned hourly slot, with an
\* off-week in the weekly table
C2_Witness ==
  /\ lastOp.op = "EnsureGenerated"
  /\ \E k \in PinnedHourly(hourly) : k[1] = lastOp.date
  /\ \E k \in DOMAIN weekly : weekly[k].is_off_week = 1

\* C3 - rotation coverage: without pinned weeks, every run of NumNames
\* consecutive weeks that all have a slot holds each roster member exactly once
C3_RotationCoverage ==
  PinnedWeeks(weekly) = {} =>
    \A w0 \in DOMAIN weekly :
      (\A i \in 0..(NumNames - 1) : (w0 + i) \in DOMAIN weekly) =>
        {weekly[w0 + i].name_id : i \in 0..(NumNames - 1)} = NameIds

\* C4 - gate continuity: if the record of D has backup P, D+1 has a record and
\* P is present on D+1, then the main of D+1 is P
C4_GateContinuity ==
  \A d \in DOMAIN gate :
    (/\ (d + 1) \in DOMAIN gate
     /\ gate[d].backup_name_id # NULL
     /\ gate[d].backup_name_id \in SeqToSet(PresentNames(absences, d + 1)))
    => gate[d + 1].main_name_id = gate[d].backup_name_id

\* C5 - reshuffle scope: a Reshuffle(date, H) step leaves every pinned slot of
\* the date, every slot of the date with hour < H and every slot of another
\* date unchanged, and creates no slot outside the unpinned hours >= H of date
C5_ReshuffleScope ==
  [][lastOp'.op = "Reshuffle" =>
       \A k \in DOMAIN hourly \cup DOMAIN hourly' :
         (\/ k[1] # lastOp'.date
          \/ k[2] < lastOp'.hour
          \/ (k \in DOMAIN hourly /\ hourly[k].is_edited = 1))
         => (k \in DOMAIN hourly /\ k \in DOMAIN hourly' /\ hourly'[k] = hourly[k])]_vars

\* a Reshuffle from cutoff 10 has run on a date that has a pinned slot at or
\* after the cutoff, an unpinned slot before it and an unpinned slot after it
C5_Witness ==
  /\ lastOp.op = "Reshuffle"
  /\ lastOp.hour = 10
  /\ \E k \in PinnedHourly(hourly) : k[1] = lastOp.date /\ k[2] >= 10
  /\ \E k \in DOMAIN hourly :
       k[1] = lastOp.date /\ k[2] < 10 /\ hourly[k].is_edited = 0
  /\ \E k \in DOMAIN hourly :
       k[1] = lastOp.date /\ k[2] >= 10 /\ hourly[k].is_edited = 0

\* C6 - pin latch: a pinned hourly or weekly slot is still there and still
\* pinned after any step
C6_PinLatch ==
  [][/\ \A k \in PinnedHourly(hourly) : k \in PinnedHourly(hourly')
     /\ \A k \in PinnedWeeks(weekly) : k \in PinnedWeeks(weekly')]_vars

\* a weekly override that changed the off-week status (so the weeks after it
\* were deleted and regenerated) has run below a pinned week, with a pinned
\* hourly slot in the tables
C6_Witness ==
  /\ lastOp.op = "OverrideWeeklyDuty"
  /\ lastOp.isOffWeekStatusChanging
  /\ \E k \in PinnedWeeks(weekly) : k > lastOp.week
  /\ PinnedHourly(hourly) # {}

\* C7 - weekly original-occupant capture: an OverrideWeeklyDuty on an unpinned
\* week stores the occupant the week held before as original occupant (null if
\* the week had no slot), and on a pinned week leaves the original occupant
C7_WeeklyOriginalCapture ==
  [][lastOp'.op = "OverrideWeeklyDuty" =>
       LET w == lastOp'.week
       IN weekly'[w].original_name_id =
            IF w \notin DOMAIN weekly THEN NULL
            ELSE IF weekly[w].is_edited = 0 THEN weekly[w].name_id
            ELSE weekly[w].original_name_id]_vars

\* C8 - hourly original-occupant capture: an OverrideHourlySlot stores the
\* requested occupant and reason and pins the slot; the original occupant is
\* the previous occupant on the first override (null if there was no slot) and
\* is left unchanged by a later override
C8_HourlyOriginalCapture ==
  [][lastOp'.op = "OverrideHourlySlot" =>
       LET k == <<lastOp'.date, lastOp'.time>>
       IN /\ k \in DOMAIN hourly'
          /\ hourly'[k].name_id = lastOp'.name_id
          /\ hourly'[k].reason = lastOp'.reason
          /\ hourly'[k].is_edited = 1
          /\ hourly'[k].original_name_id =
               IF k \notin DOMAIN hourly THEN NULL
               ELSE IF hourly[k].is_edited = 0 THEN hourly[k].name_id
               ELSE hourly[k].original_name_id]_vars

\* a second override of a slot whose first override replaced a generated
\* occupant: the slot still shows the generated occupant as original, which is
\* not the occupant the second override replaced
C8_Witness ==
  /\ lastOp.op = "OverrideHourlySlot"
  /\ lastOp.row = "pinned"
  /\ hourly[<<lastOp.date, lastOp.time>>].original_name_id # NULL
  /\ hourly[<<lastOp.date, lastOp.time>>].reason = "r2"

RECURSIVE C10_Continuation(_, _, _, _)
C10_Continuation(w, week, endWeek, p) ==
  IF week >= endWeek THEN TRUE
  ELSE IF week \notin DOMAIN w THEN FALSE
  ELSE IF w[week].is_edited = 1
  THEN C10_Continuation(w, week + 1, endWeek,
                        IF w[week].is_off_week = 0 THEN w[week].name_id ELSE p)
  ELSE /\ w[week].name_id = NextInList(Names, p)
       /\ C10_Continuation(w, week + 1, endWeek, w[week].name_id)

\* C10 - weekly override with an off-week status change: every pinned week
\* other than W is unchanged, and the weeks of the window starting at W are the
\* round-robin continuation of the pointer derived at W
C10_OverrideReshift ==
  [][(lastOp'.op = "OverrideWeeklyDuty" /\ lastOp'.isOffWeekStatusChanging)
     => LET W == lastOp'.week
        IN /\ \A k \in PinnedWeeks(weekly) \ {W} :
                k \in DOMAIN weekly' /\ weekly'[k] = weekly[k]
           /\ C10_Continuation(weekly', W, W + WEEKS_TO_GENERATE,
                               InitialLastAssigned(weekly', Names, W))]_vars

\* the same walk over well-formed weeks only: a pinned non-off week without an
\* occupant is passed over
RECURSIVE C10_ContinuationWellFormed(_, _, _, _)
C10_ContinuationWellFormed(w, week, endWeek, p) ==
  IF week >= endWeek THEN TRUE
  ELSE IF week \notin DOMAIN w THEN FALSE
  ELSE IF w[week].is_edited = 1
  THEN C10_ContinuationWellFormed(w, week + 1, endWeek,
         IF w[week].is_off_week = 0 /\ w[week].name_id # NULL
         THEN w[week].name_id ELSE p)
  ELSE /\ w[week].name_id = NextInList(Names, p)
       /\ C10_ContinuationWellFormed(w, week + 1, endWeek, w[week].name_id)

C10_OverrideReshiftWellFormed ==
  [][(lastOp'.op = "OverrideWeeklyDuty" /\ lastOp'.isOffWeekStatusChanging)
     => LET W == lastOp'.week
        IN /\ \A k \in PinnedWeeks(weekly) \ {W} :
                k \in DOMAIN weekly' /\ weekly'[k] = weekly[k]
           /\ C10_ContinuationWellFormed(weekly', W, W + WEEKS_TO_GENERATE,
                               InitialLastAssigned(weekly', Names, W))]_vars

\* C11 - weekly override without an off-week status change: when the off-week
\* status requested for week W equals the status W had (not off when W had no
\* slot), the step changes the slot of W only: every other week keeps its slot
\* as it was, and no week appears or disappears
C11_OverrideFrame ==
  [][(/\ lastOp'.op = "OverrideWeeklyDuty"
      /\ (IF lastOp'.is_off_week = "1" THEN 1 ELSE 0) =
           (IF lastOp'.week \in DOMAIN weekly
            THEN weekly[lastOp'.week].is_off_week ELSE 0))
     => /\ DOMAIN weekly' = DOMAIN weekly \cup {lastOp'.week}
        /\ \A k \in DOMAIN weekly \ {lastOp'.week} : weekly'[k] = weekly[k]]_vars

\* an override that changed the occupant of week W and not its off-week status
\* has run while a later generated week held the successor of W's former
\* occupant, so that a re-shift would have changed that later week
C11_Witness ==
  /\ lastOp.op = "OverrideWeeklyDuty"
  /\ ~lastOp.isOffWeekStatusChanging
  /\ lastOp.row = "auto"
  /\ weekly[lastOp.week].original_name_id # NULL
  /\ \E k \in DOMAIN weekly :
       /\ k = lastOp.week + 1
       /\ weekly[k].is_edited = 0
       /\ weekly[k].name_id # NextInList(Names, weekly[lastOp.week].name_id)

\* C12 - no duplicate slots: at any moment of two interleaved reads of a new
\* date, no two rows of the hourly table have the same date and hour, no two
\* gate records the same date, no two weekly rows the same week and no two
\* on-call rows the same week and weekday
C12_NoDuplicateSlots ==
  \A t \in {"hourly", "gate", "weekly", "oncall"} :
    \A i, j \in 1..Len(conn.tables[t]) :
      i # j => conn.tables[t][i].key # conn.tables[t][j].key

\* both reads have ended, one of them after an INSERT of its own was rejected,
\* and the four tables are filled for the date
C12_Witness ==
  /\ \A p \in Requests : req[p].pc \in {"done", "failed"}
  /\ \E p \in Requests : req[p].failedAt # NullText
  /\ Len(conn.tables.gate) = 1
  /\ Len(conn.tables.hourly) = Len(TimeSlotList)
  /\ Len(conn.tables.weekly) = WEEKS_TO_GENERATE
  /\ Len(conn.tables.oncall) = OnCallSlots

\* C13 - concurrent generate-on-read: of two reads of a new date interleaved
\* at their awaits, neither ends with an error response
C13_NoRequestFails ==
  \A p \in Requests : req[p].pc # "failed"

\* the passes and operations that write several rows: the weekly and on-call
\* passes of a read, a reshuffle, and a weekly override with its re-shift
C14_MultiRow(r) ==
  \/ r.kind = "daily" /\ r.failedAt \in {"weeklyAll", "weeklyRecent", "weeklyWrite",
                                         "oncallState", "oncallAll", "oncallRecent",
                                         "oncallInsert", "oncallUpdate"}
  \/ r.kind = "reshuffle" /\ r.failedAt \in {"hourlyBegin", "hourlyDelete",
                                             "hourlyInsert", "hourlyAudit",
                                             "hourlyCommit"}
  \/ r.kind = "override" /\ r.failedAt \in {"overrideDelete", "overrideNames",
                                            "weeklyAll", "weeklyRecent",
                                            "weeklyWrite", "overrideCommit"}

\* C14 - atomicity on storage failure: a request of which a statement of a
\* multi-row pass has failed ends with an error response and leaves the tables
\* as they were when it arrived
C14_Atomicity ==
  [][(/\ req[1].pc \notin {"idle", "done", "failed"}
      /\ req'[1].pc \in {"done", "failed"}
      /\ C14_MultiRow(req'[1]))
     => (/\ req'[1].pc = "failed"
         /\ conn'.tables = lastOp.before)]_vars

\* C15 - unpinned slots carry no pin metadata: every hourly and weekly slot
\* with is_edited = 0 has no original occupant and no reason
C15_UnpinnedNoMetadata ==
  /\ \A k \in DOMAIN hourly :
       hourly[k].is_edited = 0 =>
         hourly[k].original_name_id = NULL /\ hourly[k].reason = NullText
  /\ \A k \in DOMAIN weekly :
       weekly[k].is_edited = 0 =>
         weekly[k].original_name_id = NULL /\ weekly[k].reason = NullText

\* a reshuffle has filled the hours around a pinned slot of its date, and the
\* weekly table holds a pinned week followed by regenerated ones
C15_Witness ==
  /\ lastOp.op = "Reshuffle"
  /\ \E k \in PinnedHourly(hourly) : k[1] = lastOp.date
  /\ \E k \in DOMAIN hourly : k[1] = lastOp.date /\ hourly[k].is_edited = 0
  /\ \E k \in PinnedWeeks(weekly) :
       (k + 1) \in DOMAIN weekly /\ weekly[k + 1].is_edited = 0

\* the most recent week before week t that is not off and has an occupant
C16_History(w, t) ==
  {k \in DOMAIN w : k < t /\ w[k].is_off_week = 0 /\ w[k].name_id # NULL}

\* C16 - weekly cold start: an EnsureGenerated on an empty weekly table gives
\* the trigger week to the second roster member and the weeks after it to the
\* members that follow in cyclic roster order; on a table with history, a
\* trigger week that has no slot yet gets the roster successor of the occupant
\* of the most recent week before it that is not off and has an occupant
C16_WeeklyColdStart ==
  [][lastOp'.op = "EnsureGenerated" =>
       LET t == WeekOf(lastOp'.date)
       IN /\ weekly = <<>> =>
               \A i \in 0..(WEEKS_TO_GENERATE - 1) :
                 /\ (t + i) \in DOMAIN weekly'
                 /\ weekly'[t + i].name_id = Names[((1 + i) % Len(Names)) + 1]
          /\ (t \notin DOMAIN weekly /\ C16_History(weekly, t) # {}) =>
               /\ t \in DOMAIN weekly'
               /\ weekly'[t].name_id =
                    NextInList(Names,
                      weekly[CHOOSE k \in C16_History(weekly, t) :
                               \A j \in C16_History(weekly, t) : j <= k].name_id)]_vars

\* a read on the empty table has filled exactly its window, unpinned: the
\* trigger week holds the second roster member, the next week the one after
C16_Witness ==
  /\ lastOp.op = "EnsureGenerated"
  /\ DOMAIN weekly =
       WeekOf(lastOp.date)..(WeekOf(lastOp.date) + WEEKS_TO_GENERATE - 1)
  /\ \A k \in DOMAIN weekly : weekly[k].is_edited = 0
  /\ weekly[WeekOf(lastOp.date)].name_id = Names[2]
  /\ weekly[WeekOf(lastOp.date) + 1].name_id = Names[(2 % Len(Names)) + 1]

\* the number of slots of date d that member m holds
C17_Held(h, d, m) ==
  Cardinality({i \in 1..Len(TimeSlotList) : h[<<d, TimeSlotList[i]>>].name_id = m})

\* C17 - hourly distribution: generating a date that has no slot, with n >= 1
\* present members, fills the six hours so that the first min(n, 6) hours hold
\* pairwise distinct present members and every later hour i holds the member
\* of hour i - n (slot i holds shuffled[i mod n] for a permutation of the
\* present roster); each present member then holds floor(6/n) or ceil(6/n)
\* hours
C17_HourlyDistribution ==
  [][(lastOp'.op = "GenerateHourly" /\ Len(lastOp'.presentNames) >= 1) =>
       LET d == lastOp'.date
           present == lastOp'.presentNames
           n == Len(present)
           slots == Len(TimeSlotList)
           occ(i) == hourly'[<<d, TimeSlotList[i]>>].name_id
       IN /\ \A i \in 1..slots : <<d, TimeSlotList[i]>> \in DOMAIN hourly'
          /\ \A i \in 1..slots : occ(i) \in SeqToSet(present)
          /\ \A i, j \in 1..slots : (i < j /\ j <= n) => occ(i) # occ(j)
          /\ \A i \in 1..slots : i > n => occ(i) = occ(i - n)
          /\ \A m \in SeqToSet(present) :
               C17_Held(hourly', d, m) \in {slots \div n, (slots + n - 1) \div n}
          /\ n >= slots => \A i, j \in 1..slots : i # j => occ(i) # occ(j)]_vars

\* a date has been generated for three present members: each holds two hours
C17_Witness ==
  /\ lastOp.op = "GenerateHourly"
  /\ Len(lastOp.presentNames) = 3
  /\ \A m \in SeqToSet(lastOp.presentNames) : C17_Held(hourly, lastOp.date, m) = 2

\* C18 - gate main selection: the record a read creates for a date with
\* present members has as main the previous day's backup if there is one and
\* it is present; else the successor, in present order with wrap-around, of
\* the previous day's main if that is present; else the first present member
C18_GateMain ==
  [][(/\ lastOp'.op = "EnsureGenerated"
      /\ lastOp'.date \notin DOMAIN gate
      /\ Len(PresentNames(absences, lastOp'.date)) > 0)
     => LET d == lastOp'.date
            present == PresentNames(absences, d)
            n == Len(present)
            pos(x) == CHOOSE i \in 1..n : present[i] = x
        IN /\ d \in DOMAIN gate'
           /\ gate'[d].main_name_id =
                IF /\ (d - 1) \in DOMAIN gate
                   /\ gate[d - 1].backup_name_id # NULL
                   /\ gate[d - 1].backup_name_id \in SeqToSet(present)
                THEN gate[d - 1].backup_name_id
                ELSE IF /\ (d - 1) \in DOMAIN gate
                        /\ gate[d - 1].main_name_id \in SeqToSet(present)
                THEN present[(pos(gate[d - 1].main_name_id) % n) + 1]
                ELSE present[1]]_vars

\* a read has created a record from a previous day that has no backup and
\* whose main is present: the rule of the successor has applied, and has
\* chosen someone else than the first present member
C18_Witness ==
  /\ lastOp.op = "EnsureGenerated"
  /\ lastOp.date \in DOMAIN gate
  /\ (lastOp.date - 1) \in DOMAIN gate
  /\ gate[lastOp.date - 1].backup_name_id = NULL
  /\ gate[lastOp.date - 1].main_name_id
       \in SeqToSet(PresentNames(absences, lastOp.date))
  /\ gate[lastOp.date].main_name_id # PresentNames(absences, lastOp.date)[1]

\* C19 - gate backup: in the record a read creates, the backup is the member
\* after the main in the present order of the date (with wrap-around) when at
\* least two members are present, and null when one is; a backup is never the
\* main, and main and backup are present on the date
C19_GateBackup ==
  [][(/\ lastOp'.op = "EnsureGenerated"
      /\ lastOp'.date \notin DOMAIN gate
      /\ lastOp'.date \in DOMAIN gate')
     => LET d == lastOp'.date
            present == PresentNames(absences, d)
            n == Len(present)
            main == gate'[d].main_name_id
            backup == gate'[d].backup_name_id
        IN /\ main \in SeqToSet(present)
           /\ n = 1 => backup = NULL
           /\ n >= 2 =>
                /\ backup = present[((CHOOSE i \in 1..n : present[i] = main) % n) + 1]
                /\ backup # main
                /\ backup \in SeqToSet(present)]_vars

\* a read has created a record on a date with a single present member
C19_Witness ==
  /\ lastOp.op = "EnsureGenerated"
  /\ lastOp.date \in DOMAIN gate
  /\ gate[lastOp.date].backup_name_id = NULL
  /\ Len(PresentNames(absences, lastOp.date)) = 1
  /\ (lastOp.date - 1) \notin DOMAIN gate

\* C20 - hourly generate is a no-op on existing data: a read of a date that
\* has an hourly slot, pinned or not, leaves the hourly table and the audit
\* log as they are, whatever the present roster is now
C20_GenerateNoOp ==
  [][(/\ lastOp'.op = "EnsureGenerated"
      /\ \E k \in DOMAIN hourly : k[1] = lastOp'.date)
     => (hourly' = hourly /\ audit' = audit)]_vars

\* a read has run on a date whose only slot is a pinned one, held by a member
\* who is absent on that date
C20_Witness ==
  /\ lastOp.op = "EnsureGenerated"
  /\ \E k \in DOMAIN hourly : k[1] = lastOp.date
  /\ \A k \in DOMAIN hourly : k[1] = lastOp.date => hourly[k].is_edited = 1
  /\ \E k \in DOMAIN hourly :
       k[1] = lastOp.date /\ <<hourly[k].name_id, lastOp.date>> \in absences

\* C21 - audit log: a Reshuffle appends exactly one entry (date, 'shuffle',
\* actor, reason) and leaves the earlier entries as they are, also when nobody
\* is present or no slot changes; every other operation leaves the log as it is
C21_AuditLog ==
  [][/\ lastOp'.op = "Reshuffle" =>
          /\ Len(audit') = Len(audit) + 1
          /\ SubSeq(audit', 1, Len(audit)) = audit
          /\ audit'[Len(audit')].action_date = lastOp'.date
          /\ audit'[Len(audit')].action_type = "shuffle"
          /\ audit'[Len(audit')].user_name \in Actors
          /\ audit'[Len(audit')].reason \in ShuffleReasons
     /\ lastOp'.op \in {"EnsureGenerated", "OverrideHourlySlot",
                        "OverrideWeeklyDuty", "ToggleAbsence"} =>
          audit' = audit]_vars

\* a reshuffle of a date on which every member is absent has left no hourly
\* slot for the date and has been logged
C21_Witness ==
  /\ lastOp.op = "Reshuffle"
  /\ PresentNames(absences, lastOp.date) = <<>>
  /\ \A k \in DOMAIN hourly : k[1] # lastOp.date
  /\ Len(audit) = 1
  /\ audit[1].action_date = lastOp.date

\* the key of slot n of the window that starts at week t
C22_Slot(t, n) ==
  <<t + (n \div Len(DAYS_OF_WEEK_KEYS)), (n % Len(DAYS_OF_WEEK_KEYS)) + 1>>

\* the number of slots in a window
C22_WindowSlots == WEEKS_TO_GENERATE_ONCALL * Len(DAYS_OF_WEEK_KEYS)

C23_PointerContinuity ==
  [][(lastOp'.op = "EnsureGenerated" /\ oncall # <<>>) =>
       LET t == WeekOf(lastOp'.date)
       IN /\ rotation' = oncall'[C22_Slot(t, C22_WindowSlots - 1)]
          /\ C22_Slot(t, 0) \notin DOMAIN oncall =>
               oncall'[C22_Slot(t, 0)] = NextInList(Names, rotation)]_vars

\* the part of C23 that the generator keeps: the pointer record holds the
\* final pointer of the pass
C23_PointerPersisted ==
  [][lastOp'.op = "EnsureGenerated" =>
       rotation' = oncall'[C22_Slot(WeekOf(lastOp'.date), C22_WindowSlots - 1)]]_vars

\* C25 - on-call pass, statement by statement: no statement changes or removes
\* a row of oncall_schedule; a row is inserted for a slot of the window of the
\* date being read, and when the slot before it in the window exists, the new
\* row holds the roster successor of that slot's occupant (the occupant of an
\* existing slot has become the pointer)
C25_OnCallPass ==
  [][LET old == conn.tables.oncall
         new == conn'.tables.oncall
     IN /\ Len(new) >= Len(old)
        /\ \A i \in 1..Len(old) : new[i] = old[i]
        /\ Len(new) > Len(old) =>
             LET row == new[Len(new)]
                 t == WeekOf(req[1].args.date)
             IN /\ Len(new) = Len(old) + 1
                /\ \E n \in 0..(C22_WindowSlots - 1) :
                     /\ row.key = C22_Slot(t, n)
                     /\ (n > 0 /\ C22_Slot(t, n - 1) \in DOMAIN OnCallMap(new)) =>
                          row.name_id =
                            NextInList(Names, OnCallMap(new)[C22_Slot(t, n - 1)])]_vars

\* the INSERT of a slot has failed in a first read and a second read of the
\* week has filled the gap: the slot, the last row of the table, comes before
\* the week's Saturday and holds the successor of the slot before it
C25_Witness ==
  /\ req[1].served = 2
  /\ req[1].pc = "done"
  /\ Len(conn.tables.oncall) = C22_WindowSlots
  /\ LET row == conn.tables.oncall[Len(conn.tables.oncall)]
     IN /\ row.key[2] > 1
        /\ row.key[2] < Len(DAYS_OF_WEEK_KEYS)
        /\ row.name_id =
             NextInList(Names, OnCallMap(conn.tables.oncall)[<<row.key[1], row.key[2] - 1>>])

\* the same at the level of whole reads: a read never changes or removes an
\* on-call slot, and fills its window
C25_SlotsKept ==
  [][lastOp'.op = "EnsureGenerated" =>
       /\ \A k \in DOMAIN oncall :
            k \in DOMAIN oncall' /\ oncall'[k] = oncall[k]
       /\ \A n \in 0..(C22_WindowSlots - 1) :
            C22_Slot(WeekOf(lastOp'.date), n) \in DOMAIN oncall']_vars

\* the hours of date d newly assigned by a reshuffle from cutoff H: the
\* unpinned slots at H and later
C24_NewHours(h, d, H) ==
  {t \in SeqToSet(TimeSlotList) :
     t >= H /\ <<d, t>> \in DOMAIN h /\ h[<<d, t>>].is_edited = 0}

\* C24 - draw without repetition: among the slots a reshuffle newly assigns,
\* taken in hour order, no present member receives a second slot while another
\* present member has received none, also when pinned hours are skipped
C24_DrawWithoutRepetition ==
  [][lastOp'.op = "Reshuffle" =>
       LET d == lastOp'.date
           new == C24_NewHours(hourly', d, lastOp'.hour)
           occ(t) == hourly'[<<d, t>>].name_id
       IN \A t \in new :
            (\E u \in new : u < t /\ occ(u) = occ(t)) =>
              \A m \in SeqToSet(PresentNames(absences, d)) :
                \E u \in new : u < t /\ occ(u) = m]_vars

\* the same for a pass that finds no pinned hour at or after its cutoff
C24_DrawWithoutPins ==
  [][(/\ lastOp'.op = "Reshuffle"
      /\ \A k \in PinnedHourly(hourly) :
           ~(k[1] = lastOp'.date /\ k[2] >= lastOp'.hour)) =>
       LET d == lastOp'.date
           new == C24_NewHours(hourly', d, lastOp'.hour)
           occ(t) == hourly'[<<d, t>>].name_id
       IN \A t \in new :
            (\E u \in new : u < t /\ occ(u) = occ(t)) =>
              \A m \in SeqToSet(PresentNames(absences, d)) :
                \E u \in new : u < t /\ occ(u) = m]_vars

\* the nearest week before k in the window from t that satisfies P, or -1
C26_Nearest(w, t, k, P(_)) ==
  IF \E j \in t..(k - 1) : j \in DOMAIN w /\ P(w[j])
  THEN CHOOSE j \in t..(k - 1) :
         /\ j \in DOMAIN w /\ P(w[j])
         /\ \A i \in (j + 1)..(k - 1) : ~(i \in DOMAIN w /\ P(w[i]))
  ELSE -1

\* a week that moves the pointer according to the claim: pinned and not off,
\* or unpinned and populated
C26_MovesPointer(rec) ==
  \/ rec.is_edited = 1 /\ rec.is_off_week = 0
  \/ rec.is_edited = 0 /\ rec.name_id # NULL

\* a week that moves the pointer in a table where every week that is not off
\* has an occupant
C26_MovesPointerWellFormed(rec) ==
  rec.is_off_week = 0 /\ rec.name_id # NULL

\* C26 - weekly pass: in the pass of a read with trigger week t, a week that
\* had no slot receives the roster successor of the occupant of the nearest
\* week before it in the window that is pinned and not off or unpinned and
\* populated (of the pointer derived from history when there is none), and
\* the weeks that had a pinned or a populated unpinned slot are not rewritten
C26_WeeklyPass ==
  [][lastOp'.op = "EnsureGenerated" =>
       LET t == WeekOf(lastOp'.date)
       IN \A k \in t..(t + WEEKS_TO_GENERATE - 1) :
            IF k \in DOMAIN weekly /\ (weekly[k].is_edited = 1 \/ weekly[k].name_id # NULL)
            THEN k \in DOMAIN weekly' /\ weekly'[k] = weekly[k]
            ELSE LET j == C26_Nearest(weekly', t, k, C26_MovesPointer)
                 IN /\ k \in DOMAIN weekly'
                    /\ weekly'[k].name_id =
                         NextInList(Names,
                           IF j = -1 THEN InitialLastAssigned(weekly, Names, t)
                           ELSE weekly'[j].name_id)]_vars

\* the same pass, a pinned week moving the pointer only when it has an occupant
C26_WeeklyPassWellFormed ==
  [][lastOp'.op = "EnsureGenerated" =>
       LET t == WeekOf(lastOp'.date)
       IN \A k \in t..(t + WEEKS_TO_GENERATE - 1) :
            IF k \in DOMAIN weekly /\ (weekly[k].is_edited = 1 \/ weekly[k].name_id # NULL)
            THEN k \in DOMAIN weekly' /\ weekly'[k] = weekly[k]
            ELSE LET j == C26_Nearest(weekly', t, k, C26_MovesPointerWellFormed)
                 IN /\ k \in DOMAIN weekly'
                    /\ weekly'[k].name_id =
                         NextInList(Names,
                           IF j = -1 THEN InitialLastAssigned(weekly, Names, t)
                           ELSE weekly'[j].name_id)]_vars

\* C28 - hourly completeness after a read: after a read of a date with a
\* present member, each of the six hours of the date has a slot
C28_HourlyComplete ==
  [][(/\ lastOp'.op = "EnsureGenerated"
      /\ PresentNames(absences, lastOp'.date) # <<>>)
     => \A i \in 1..Len(TimeSlotList) :
          <<lastOp'.date, TimeSlotList[i]>> \in DOMAIN hourly']_vars

\* the same for a date that has no hourly slot before the read
C28_HourlyCompleteOnNewDate ==
  [][(/\ lastOp'.op = "EnsureGenerated"
      /\ PresentNames(absences, lastOp'.date) # <<>>
      /\ \A k \in DOMAIN hourly : k[1] # lastOp'.date)
     => \A i \in 1..Len(TimeSlotList) :
          <<lastOp'.date, TimeSlotList[i]>> \in DOMAIN hourly']_vars

\* C29 - weekly slots are well formed: every slot is off with no occupant or
\* not off with an occupant, and every unpinned slot is not off
C29_WeeklyWellFormed ==
  \A k \in DOMAIN weekly :
    /\ \/ weekly[k].is_off_week = 1 /\ weekly[k].name_id = NULL
       \/ weekly[k].is_off_week = 0 /\ weekly[k].name_id # NULL
    /\ weekly[k].is_edited = 0 => weekly[k].is_off_week = 0

\* the same for the unpinned slots alone, which only the generator writes
C29_UnpinnedWellFormed ==
  \A k \in DOMAIN weekly :
    weekly[k].is_edited = 0 =>
      weekly[k].is_off_week = 0 /\ weekly[k].name_id # NULL

\* the row of the entry appended last for a date, 0 when it has none
C27_LastAppended(a, date) ==
  IF \E i \in 1..Len(a) : a[i].action_date = date
  THEN CHOOSE i \in 1..Len(a) :
         /\ a[i].action_date = date
         /\ \A j \in (i + 1)..Len(a) : a[j].action_date # date
  ELSE 0

\* C27 - most recent audit entry surfaced: the entry returned to the reader of
\* a date, by the read and by the reshuffle response, is the entry appended
\* last for that date
C27_MostRecentSurfaced ==
  lastOp.op \in {"Reshuffle", "EnsureGenerated"} =>
    auditView.surfaced = C27_LastAppended(audit, lastOp.date)

\* the same when no two entries of the date carry the same timestamp
C27_SurfacedWhenDistinct ==
  (/\ lastOp.op \in {"Reshuffle", "EnsureGenerated"}
   /\ \A i, j \in 1..Len(audit) :
        (i # j /\ audit[i].action_date = audit[j].action_date) =>
          auditView.stamps[i] # auditView.stamps[j])
  => auditView.surfaced = C27_LastAppended(audit, lastOp.date)

\* C30 - transaction isolation on the shared connection: the ROLLBACK issued
\* by an override whose BEGIN has failed leaves the tables and the open
\* transaction of the other request as they are, and a reshuffle that has
\* answered with an error has left none of its writes: no unpinned hourly slot
\* and no audit entry
C30_Isolation ==
  [][/\ \A p \in Requests :
          (/\ req[p].pc = "overrideRollback"
           /\ req[p].failedAt \in {"overrideBegin", "slotOverrideBegin"}
           /\ req'[p].pc # "overrideRollback")
          => conn' = conn
     /\ (req'[1].kind = "reshuffle" /\ req'[1].pc = "failed") =>
          /\ conn'.tables.audit = <<>>
          /\ \A i \in 1..Len(conn'.tables.hourly) :
               conn'.tables.hourly[i].is_edited = 1]_vars

\* the override that has answered with success has its pinned row stored
C30_OverrideKept ==
  (req[2].pc = "done" /\ ~conn.transaction.active) =>
    \/ /\ req[2].kind = "slotOverride"
       /\ \E i \in 1..Len(conn.tables.hourly) : conn.tables.hourly[i].is_edited = 1
    \/ /\ req[2].kind = "override"
       /\ \E i \in 1..Len(conn.tables.weekly) : conn.tables.weekly[i].is_edited = 1

====
